---- MODULE Spec2Model ----
(***************************************************************************)
(* Decision engine: rule aggregation, pre-trade checklist and the          *)
(* per-event decision pipeline of decision_engine/service.py.              *)
(*                                                                         *)
(* Numbers.  Python floats are modelled as exact rationals [n, d] (value   *)
(* n/d, kept in lowest terms); rounding error of binary floating point is  *)
(* not modelled.  Rule confidences are given in hundredths, rule weights   *)
(* and regime multipliers in tenths, risk percentages and reward:risk      *)
(* ratios in tenths.                                                       *)
(*                                                                         *)
(* Optional values (Python None) are sequences of length 0 or 1.           *)
(***************************************************************************)
EXTENDS Integers, Sequences, FiniteSets, TLC

VARIABLES
    agg_in,         \* inputs of one _evaluate_rules call (aggregation study)
    agg_out,        \* its result: <<>> before the call, <<result>> after
    conf_in,        \* inputs of one _aggregate_signals call (confidence study)
    conf_out,       \* its result
    chk_in,         \* inputs of one ChecklistEvaluator.evaluate call
    chk_out,        \* its result
    now,            \* wall clock (datetime.utcnow), in ticks
    svc,            \* service wiring fixed by initialize()
    reader_regime,  \* MarketContextReader._regime
    states,         \* StateManager._states: symbol -> SymbolState
    last_publish,   \* DecisionEngineService._last_publish: symbol -> time
    ev,             \* trace of the last handle_indicator_event call
    decision_log,   \* decisions topic: symbol -> time of its last published decision
    blocked_log,    \* symbols whose current BUY signal a BLOCKED checklist suppressed
    last_ranking_publish,   \* DecisionEngineService._last_ranking_publish
    histories,      \* SymbolState.signal_history.signals of the observed symbols
    hist_log,       \* every contributing signal recorded so far, per symbol
    gs,             \* threads inside StateManager.get_state (thread study)
    reader,         \* MarketContextReader: client, thread, last start/refresh
    tp_in, tp_out,  \* one TradePlanEngine.generate call: arguments, plan
    wk,             \* worker threads inside handle_indicator_event (debounce race)
    cx,             \* a worker building a rule context beside the fill consumer
    ag,             \* a worker inside _aggregate_signals beside the refresh thread
    trk,            \* PositionTracker._positions: symbol -> quantity held
    store           \* the regime store: reachable or not, the value it holds

vars == <<agg_in, agg_out, conf_in, conf_out, chk_in, chk_out,
          now, svc, reader_regime, states, last_publish, ev,
          decision_log, blocked_log, last_ranking_publish, histories, hist_log, gs, reader,
          tp_in, tp_out, wk, cx, ag, trk, store>>

aggVars  == <<agg_in, agg_out>>
confVars == <<conf_in, conf_out>>
chkVars  == <<chk_in, chk_out>>
gsVars   == <<gs>>
histVars == <<hist_log>>
rdrVars  == <<reader>>
lateVars == <<tp_in, tp_out, wk, cx, ag, trk, store>>
pipeVars == <<now, svc, reader_regime, states, last_publish, ev,
              decision_log, blocked_log, last_ranking_publish, histories>>
studyVars == <<aggVars, confVars, chkVars, gsVars, histVars, rdrVars, lateVars>>

----------------------------------------------------------------------------
(* Bounds *)

MaxRules   == 5     \* rules in the evaluated rule set
MaxSignals == 5     \* signals handed to one _aggregate_signals call
MaxTime    == 1     \* clock ticks
MaxThreads == 3     \* threads racing in get_state
MaxRecorded == 52   \* contributing signals recorded per symbol (history study)
MaxEvents  == 3     \* signals recorded per symbol in the two-symbol study
MaxClock   == 3600  \* seconds of wall clock in the debounce study

----------------------------------------------------------------------------
(* Optionals and rationals *)

None == <<>>
Some(x) == <<x>>
IsNone(o) == Len(o) = 0
IsSome(o) == Len(o) = 1
Val(o) == o[1]

Min2(a, b) == IF a <= b THEN a ELSE b

RECURSIVE GCD(_, _)
GCD(a, b) == IF b = 0 THEN a ELSE GCD(b, a % b)

\* n/d in lowest terms, d > 0
Rat(n, d) == LET g == GCD(n, d) IN [n |-> n \div g, d |-> d \div g]
RAdd(x, y) == Rat(x.n * y.d + y.n * x.d, x.d * y.d)
RMul(x, y) == Rat(x.n * y.n, x.d * y.d)
RLt(x, y)  == x.n * y.d < y.n * x.d
RLe(x, y)  == x.n * y.d <= y.n * x.d
RMin(x, y) == IF RLe(x, y) THEN x ELSE y
RSub(x, y) == Rat(x.n * y.d - y.n * x.d, x.d * y.d)
RDiv(x, y) == Rat(x.n * y.d, x.d * y.n)     \* y > 0
RAbs(x)    == IF x.n < 0 THEN [n |-> 0 - x.n, d |-> x.d] ELSE x
RInt(k)    == Rat(k, 1)
ROne  == Rat(1, 1)
RZero == Rat(0, 1)

RECURSIVE SumOver(_, _, _)
\* sum of f[i] for i in 1..k
SumOver(f, k, acc) == IF k = 0 THEN acc ELSE SumOver(f, k - 1, acc + f[k])

----------------------------------------------------------------------------
(* models/signals.py: ConfidenceAggregator *)

DEFAULT_WEIGHT == 10    \* weights.get(name, 1.0), in tenths

\* weights: a function rule_name -> weight in tenths; the empty function
\* stands for weights=None (every rule then gets 1.0, as does any rule
\* missing from the dict).
WeightOf(weights, name) ==
    IF name \in DOMAIN weights THEN weights[name] ELSE DEFAULT_WEIGHT

NoWeights == [x \in {} |-> DEFAULT_WEIGHT]

weighted_average(signals, weights) ==
    IF Len(signals) = 0 THEN RZero
    ELSE LET w == [i \in 1..Len(signals) |-> WeightOf(weights, signals[i].rule_name)]
             cw == [i \in 1..Len(signals) |-> signals[i].confidence * w[i]]
             total_weight == SumOver(w, Len(signals), 0)
             weighted_sum == SumOver(cw, Len(signals), 0)
         IN IF total_weight > 0 THEN Rat(weighted_sum, total_weight * 100)
            ELSE RZero

BOOST_PER_RULE == 5     \* 0.05 per additional agreeing rule, in hundredths
BOOST_CAP == 15         \* 0.15, in hundredths

agreement_boost_uncapped(signals) ==
    Rat((Len(signals) - 1) * BOOST_PER_RULE, 100)

agreement_boost(signals) ==
    Rat(Min2((Len(signals) - 1) * BOOST_PER_RULE, BOOST_CAP), 100)

\* consensus_boost calls weighted_average(signals) with no weights argument
base_confidence(signals) == weighted_average(signals, NoWeights)

consensus_boost(signals) ==
    IF Len(signals) = 0 THEN RZero
    ELSE RMin(RAdd(base_confidence(signals), agreement_boost(signals)), ROne)

----------------------------------------------------------------------------
(* market_context.py: regime multipliers *)

KnownRegimes == {"BULL", "SIDEWAYS", "BEAR", "UNKNOWN"}
Regimes == KnownRegimes \cup {"CRASH"}   \* "CRASH": an unrecognised string

REGIME_MULTIPLIERS ==
    [r \in KnownRegimes |->
        CASE r = "BULL" -> Rat(10, 10)
          [] r = "SIDEWAYS" -> Rat(7, 10)
          [] r = "BEAR" -> Rat(3, 10)
          [] r = "UNKNOWN" -> Rat(10, 10)]

get_multiplier_any_type(signal_type, regime) ==
    IF regime \in DOMAIN REGIME_MULTIPLIERS THEN REGIME_MULTIPLIERS[regime]
    ELSE ROne

get_multiplier(signal_type, regime) ==
    IF signal_type # "BUY" THEN ROne
    ELSE IF regime \in DOMAIN REGIME_MULTIPLIERS THEN REGIME_MULTIPLIERS[regime]
    ELSE ROne

----------------------------------------------------------------------------
(* service.py: _aggregate_signals and _evaluate_rules *)

\* index of the first signal of highest confidence (Python max keeps the first)
RECURSIVE ArgMax(_, _, _)
ArgMax(signals, i, best) ==
    IF i > Len(signals) THEN best
    ELSE ArgMax(signals, i + 1,
                IF signals[i].confidence > signals[best].confidence THEN i ELSE best)

\* regime: the reader's _regime at the time of the call.  The per-symbol rule
\* weights returned by _get_rules_for_symbol are dropped by the caller
\* (rules, _ = ...) and never reach this function.
_aggregate_signals(symbol, signal_type, signals, rules_evaluated, timestamp, regime) ==
    LET boosted == consensus_boost(signals)
        multiplier == get_multiplier(signal_type, regime)
        aggregate_confidence ==
            IF multiplier # ROne THEN RMin(RMul(boosted, multiplier), ROne)
            ELSE boosted
    IN [symbol |-> symbol,
        signal_type |-> signal_type,
        aggregate_confidence |-> aggregate_confidence,
        primary_rule |-> signals[ArgMax(signals, 1, 1)].rule_name,
        contributing_signals |-> signals,
        timestamp |-> timestamp,
        rules_triggered |-> Len(signals),
        rules_evaluated |-> rules_evaluated,
        regime_id |-> regime]

\* One rule's outcome for the event: kind "skip" (can_evaluate false),
\* "none" (evaluated, not triggered) or "hit" with a signal type and a
\* confidence in hundredths.
RuleOutcome(kind, signal, confidence) ==
    [kind |-> kind, signal |-> signal, confidence |-> confidence]

RECURSIVE SignalsOf(_, _, _)
\* the triggered signals of one type, in rule order (the loop's appends)
SignalsOf(results, signal_type, i) ==
    IF i > Len(results) THEN <<>>
    ELSE (IF results[i].kind = "hit" /\ results[i].signal = signal_type
          THEN <<[rule_name |-> i, signal_type |-> signal_type,
                  confidence |-> results[i].confidence]>>
          ELSE <<>>) \o SignalsOf(results, signal_type, i + 1)

CountEvaluated(results) == Cardinality({i \in 1..Len(results) : results[i].kind # "skip"})

ConsensusGateOff(require_consensus, consensus_min_rules, signals) == FALSE

\* The consensus gate of one direction
ConsensusGate(require_consensus, consensus_min_rules, signals) ==
    require_consensus /\ Len(signals) < consensus_min_rules

\* strict majority of one actionable direction over the other
HasMajorityGe(signals, others) == Len(signals) > 0 /\ Len(signals) >= Len(others)

HasMajority(signals, others) == Len(signals) > 0 /\ Len(signals) > Len(others)

_evaluate_rules(symbol, results, timestamp, require_consensus, consensus_min_rules, regime) ==
    LET buy_signals == SignalsOf(results, "BUY", 1)
        sell_signals == SignalsOf(results, "SELL", 1)
        watch_signals == SignalsOf(results, "WATCH", 1)
        rules_evaluated == CountEvaluated(results)
    IN IF HasMajority(buy_signals, sell_signals)
       THEN IF ConsensusGate(require_consensus, consensus_min_rules, buy_signals)
            THEN None
            ELSE Some(_aggregate_signals(symbol, "BUY", buy_signals,
                                         rules_evaluated, timestamp, regime))
       ELSE IF HasMajority(sell_signals, buy_signals)
       THEN IF ConsensusGate(require_consensus, consensus_min_rules, sell_signals)
            THEN None
            ELSE Some(_aggregate_signals(symbol, "SELL", sell_signals,
                                         rules_evaluated, timestamp, regime))
       ELSE IF Len(watch_signals) > 0
       THEN Some(_aggregate_signals(symbol, "WATCH", watch_signals,
                                    rules_evaluated, timestamp, regime))
       ELSE None

----------------------------------------------------------------------------
(* checklist.py: ChecklistEvaluator *)

EARNINGS_HARD_GATE_DAYS == 5
MAX_RISK_PCT_BLOCKED == 50      \* 5.0 %, in tenths
MAX_RISK_PCT_REVIEW == 20       \* 2.0 %, in tenths
MIN_RR_RATIO == 20              \* 2.0, in tenths
BEAR_REGIMES == {"BEAR"}
DEFAULT_DAYS_AWAY == 999        \* earnings.get("days_away", 999)

\* A TradePlan, reduced to the fields the checklist and the service read.
TradePlan(stop_price, risk_pct, risk_reward_ratio, plan_valid) ==
    [stop_price |-> stop_price, risk_pct |-> risk_pct,
     risk_reward_ratio |-> risk_reward_ratio, plan_valid |-> plan_valid]

\* What self._client.get(key) does on one call:
\*   kind "error"  - raises redis.RedisError (or the value is not JSON)
\*   kind "absent" - returns nothing
\*   kind "data"   - returns a JSON object; days_kind says whether days_away
\*                   is an integer ("int", value in days), missing from the
\*                   object ("missing") or null ("null"); updated says whether
\*                   updated_at is missing ("none"), within the staleness
\*                   window ("fresh"), older ("stale") or not a number
\*                   ("invalid").
EarningsRead(kind, days_kind, days, updated) ==
    [kind |-> kind, days_kind |-> days_kind, days |-> days, updated |-> updated]

\* client: TRUE iff self._client is set
_get_earnings(client, read) ==
    IF ~client THEN None
    ELSE IF read.kind = "error" THEN None
    ELSE IF read.kind = "absent" THEN None
    ELSE IF read.updated = "stale" THEN None
    ELSE Some(read)

\* earnings.get("days_away", 999) as an optional integer (None for null)
days_away_of(earnings) ==
    IF earnings.days_kind = "missing" THEN Some(DEFAULT_DAYS_AWAY)
    ELSE IF earnings.days_kind = "null" THEN None
    ELSE Some(earnings.days)

\* evaluate() raises TypeError at "days_away > EARNINGS_HARD_GATE_DAYS" when
\* the stored days_away is null
evaluate_raises(trade_plan, regime_id, client, read) ==
    LET earnings == _get_earnings(client, read)
    IN IsSome(earnings) /\ IsNone(days_away_of(Val(earnings)))

\* check 4
no_earnings_imminent(earnings, client) ==
    IF IsNone(earnings) /\ ~client THEN FALSE
    ELSE IF IsNone(earnings) THEN TRUE
    ELSE Val(days_away_of(Val(earnings))) > EARNINGS_HARD_GATE_DAYS

\* check 5
regime_compatible(regime_id) == regime_id \notin BEAR_REGIMES

is_earnings_blocked_strict(earnings_days_away) ==
    IsSome(earnings_days_away) /\ Val(earnings_days_away) < EARNINGS_HARD_GATE_DAYS

is_earnings_blocked(earnings_days_away) ==
    IsSome(earnings_days_away) /\ Val(earnings_days_away) <= EARNINGS_HARD_GATE_DAYS

is_size_blocked_soft(trade_plan) ==
    IsSome(trade_plan) /\ Val(trade_plan).risk_pct > MAX_RISK_PCT_REVIEW

is_size_blocked(trade_plan) ==
    IsSome(trade_plan) /\ Val(trade_plan).risk_pct > MAX_RISK_PCT_BLOCKED

checklist_status(earnings_blocked, size_blocked, all_checks_passed) ==
    IF earnings_blocked \/ size_blocked THEN "BLOCKED"
    ELSE IF all_checks_passed THEN "GO"
    ELSE "REVIEW"

\* ChecklistEvaluator.evaluate, for calls on which it does not raise
evaluate(trade_plan, regime_id, client, read) ==
    LET earnings == _get_earnings(client, read)
        stop_loss_defined == IsSome(trade_plan) /\ Val(trade_plan).stop_price > 0
        position_sized_correctly ==
            IsSome(trade_plan) /\ Val(trade_plan).risk_pct <= MAX_RISK_PCT_REVIEW
        rr_ratio_acceptable ==
            IsSome(trade_plan) /\ Val(trade_plan).plan_valid
                /\ Val(trade_plan).risk_reward_ratio >= MIN_RR_RATIO
        earnings_ok == no_earnings_imminent(earnings, client)
        earnings_days_away ==
            IF IsNone(earnings) THEN None ELSE days_away_of(Val(earnings))
        regime_ok == regime_compatible(regime_id)
        all_checks_passed ==
            stop_loss_defined /\ position_sized_correctly /\ rr_ratio_acceptable
                /\ earnings_ok /\ regime_ok
    IN [stop_loss_defined |-> stop_loss_defined,
        position_sized_correctly |-> position_sized_correctly,
        rr_ratio_acceptable |-> rr_ratio_acceptable,
        no_earnings_imminent |-> earnings_ok,
        regime_compatible |-> regime_ok,
        all_checks_passed |-> all_checks_passed,
        status |-> checklist_status(is_earnings_blocked(earnings_days_away),
                                    is_size_blocked(trade_plan),
                                    all_checks_passed),
        earnings_days_away |-> earnings_days_away,
        regime_id |-> regime_id,
        risk_pct |-> IF IsSome(trade_plan) THEN Val(trade_plan).risk_pct ELSE 0,
        rr_ratio |-> IF IsSome(trade_plan) THEN Val(trade_plan).risk_reward_ratio ELSE 0]

----------------------------------------------------------------------------
(* Input domains of the studies *)

ConfLevels == {60, 80, 95}
SignalTypes == {"BUY", "SELL", "WATCH"}

\* rule outcomes offered to _evaluate_rules
AggOutcomes ==
    {RuleOutcome("skip", "BUY", 0), RuleOutcome("none", "BUY", 0),
     RuleOutcome("hit", "BUY", 60), RuleOutcome("hit", "BUY", 95),
     RuleOutcome("hit", "SELL", 60), RuleOutcome("hit", "WATCH", 60)}

\* (require_consensus, consensus_min_rules); the defaults are (False, 1)
ConsensusConfigs == {<<FALSE, 1>>, <<TRUE, 2>>, <<TRUE, 3>>}

\* configured rule weights (rules.yaml "weight"), in tenths
WeightProfiles ==
    {[i \in 1..MaxSignals |-> 10],
     [i \in 1..MaxSignals |-> IF i = 1 THEN 20 ELSE 10],
     [i \in 1..MaxSignals |-> IF i % 2 = 0 THEN 15 ELSE 10]}

SignalsOfType(signal_type, n) ==
    {[i \in 1..n |-> [rule_name |-> i, signal_type |-> signal_type,
                      confidence |-> cs[i]]] : cs \in [1..n -> ConfLevels]}

Plans ==
    {TradePlan(sp, rp, rr, pv) :
        sp \in {0, 43}, rp \in {15, 20, 35, 50, 51}, rr \in {15, 20, 25},
        pv \in BOOLEAN}

EarningsReads ==
    {EarningsRead("error", "int", 0, "none"), EarningsRead("absent", "int", 0, "none")}
    \cup {EarningsRead("data", "int", d, u) :
            d \in {-1, 0, 4, 5, 6, 30}, u \in {"none", "fresh", "stale", "invalid"}}
    \cup {EarningsRead("data", k, 0, u) :
            k \in {"missing", "null"}, u \in {"none", "fresh", "stale", "invalid"}}

----------------------------------------------------------------------------
(* The service state outside a study *)

Symbols == {"AAA"}

SymbolState == [last_update |-> None, current_signal |-> None, has_position |-> FALSE]

PipeRest ==
    /\ now = 0
    /\ svc = [checklist_client |-> TRUE, tracker_connected |-> TRUE,
              plan_engine |-> TRUE, risk_adapter |-> FALSE,
              require_consensus |-> FALSE, consensus_min_rules |-> 1,
              debounce_seconds |-> 1, ranking_interval_seconds |-> 1,
              active_tickers_only |-> FALSE, active_tickers |-> {"ZZZ"}]
    /\ reader_regime = "UNKNOWN"
    /\ states = [s \in {} |-> SymbolState]
    /\ last_publish = [s \in {} |-> 0]
    /\ ev = None
    /\ decision_log = [s \in {} |-> 0]
    /\ blocked_log = {}
    /\ last_ranking_publish = None
    /\ histories = [s \in {} |-> <<>>]

AggRest  == agg_in = None /\ agg_out = None
ConfRest == conf_in = None /\ conf_out = None
ChkRest  == chk_in = None /\ chk_out = None
GsRest   == gs = None
HistRest == hist_log = [s \in {} |-> <<>>]
RdrRest  == reader = None
TpRest   == tp_in = None /\ tp_out = None
WkRest   == wk = None
CxRest   == cx = None
AgRest   == ag = None
TrkRest  == trk = None
StoreRest == store = None
LateRest == TpRest /\ WkRest /\ CxRest /\ AgRest /\ TrkRest /\ StoreRest

----------------------------------------------------------------------------
(* Study of _evaluate_rules: one call on drawn rule outcomes *)

InitAggregate ==
    /\ \E results \in [1..MaxRules -> AggOutcomes], cc \in ConsensusConfigs,
          regime \in {"BULL", "BEAR"} :
            agg_in = Some([results |-> results, require_consensus |-> cc[1],
                           consensus_min_rules |-> cc[2], regime |-> regime])
    /\ agg_out = None
    /\ ConfRest /\ ChkRest /\ GsRest /\ HistRest /\ RdrRest /\ PipeRest /\ LateRest

EvaluateRules ==
    /\ IsSome(agg_in) /\ IsNone(agg_out)
    /\ agg_out' = Some(_evaluate_rules("AAA", Val(agg_in).results, 0,
                                       Val(agg_in).require_consensus,
                                       Val(agg_in).consensus_min_rules,
                                       Val(agg_in).regime))
    /\ UNCHANGED <<agg_in, confVars, chkVars, gsVars, histVars, rdrVars, pipeVars, lateVars>>

NextAggregate == EvaluateRules

SpecAggregate == InitAggregate /\ [][NextAggregate]_vars

----------------------------------------------------------------------------
(* Study of _aggregate_signals: one call on drawn signals of one type *)

InitConfidence ==
    /\ \E st \in SignalTypes, n \in 1..MaxSignals, regime \in Regimes,
          rule_weights \in WeightProfiles :
         \E signals \in SignalsOfType(st, n) :
            conf_in = Some([signal_type |-> st, signals |-> signals,
                            regime |-> regime, rule_weights |-> rule_weights])
    /\ conf_out = None
    /\ AggRest /\ ChkRest /\ GsRest /\ HistRest /\ RdrRest /\ PipeRest /\ LateRest

AggregateSignals ==
    /\ IsSome(conf_in) /\ IsNone(conf_out)
    /\ LET in == Val(conf_in) IN
        conf_out' = Some([signal |-> _aggregate_signals("AAA", in.signal_type, in.signals,
                                                        Len(in.signals), 0, in.regime),
                          base_confidence |-> base_confidence(in.signals),
                          boosted |-> consensus_boost(in.signals),
                          multiplier |-> get_multiplier(in.signal_type, in.regime)])
    /\ UNCHANGED <<conf_in, aggVars, chkVars, gsVars, histVars, rdrVars, pipeVars, lateVars>>

NextConfidence == AggregateSignals

SpecConfidence == InitConfidence /\ [][NextConfidence]_vars

----------------------------------------------------------------------------
(* Study of ChecklistEvaluator.evaluate: one call on drawn inputs *)

InitChecklist ==
    /\ \E trade_plan \in {None} \cup {Some(p) : p \in Plans}, regime_id \in Regimes,
          client \in BOOLEAN, read \in EarningsReads :
            chk_in = Some([trade_plan |-> trade_plan, regime_id |-> regime_id,
                           client |-> client, read |-> read])
    /\ chk_out = None
    /\ AggRest /\ ConfRest /\ GsRest /\ HistRest /\ RdrRest /\ PipeRest /\ LateRest

\* chk_out is [raised |-> TRUE] when evaluate raises, else the result
Evaluate ==
    /\ IsSome(chk_in) /\ IsNone(chk_out)
    /\ LET in == Val(chk_in) IN
        chk_out' =
            IF evaluate_raises(in.trade_plan, in.regime_id, in.client, in.read)
            THEN Some([raised |-> TRUE, result |-> None])
            ELSE Some([raised |-> FALSE,
                       result |-> Some(evaluate(in.trade_plan, in.regime_id,
                                                in.client, in.read))])
    /\ UNCHANGED <<chk_in, aggVars, confVars, gsVars, histVars, rdrVars, pipeVars, lateVars>>

NextChecklist == Evaluate

SpecChecklist == InitChecklist /\ [][NextChecklist]_vars

----------------------------------------------------------------------------
(* Properties of the checklist (SpecChecklist) *)

\* the lookup returned usable data whose days_away is an integer <= 5
EarningsWithinGate(in) ==
    /\ in.client /\ in.read.kind = "data" /\ in.read.updated # "stale"
    /\ in.read.days_kind = "int" /\ in.read.days <= 5

ChkDone == IsSome(chk_out) /\ ~Val(chk_out).raised
ChkResult == Val(Val(chk_out).result)

\* C2: whenever the earnings lookup returns fresh data with days_away <= 5,
\* the checklist status is BLOCKED, whatever the other four checks say and
\* whether or not a trade plan is present.
C2_EarningsImminentBlocks ==
    (IsSome(chk_out) /\ EarningsWithinGate(Val(chk_in)))
        => (~Val(chk_out).raised /\ ChkResult.status = "BLOCKED")

\* C2 witness: no trade plan, earnings exactly 5 days away, status BLOCKED
C2_Witness ==
    /\ ChkDone /\ IsNone(Val(chk_in).trade_plan)
    /\ EarningsWithinGate(Val(chk_in)) /\ Val(chk_in).read.days = 5
    /\ ChkResult.status = "BLOCKED"

\* C3 (as claimed): if the lookup is unreachable - no client, or the read
\* fails with a store error - no_earnings_imminent is false and the status is
\* not GO.
C3_UnreachableFailsCheck ==
    (ChkDone /\ (~Val(chk_in).client \/ Val(chk_in).read.kind = "error"))
        => (~ChkResult.no_earnings_imminent /\ ChkResult.status # "GO")

\* C4: the status is BLOCKED exactly when earnings are within the hard gate
\* or the plan's risk_pct exceeds 5.0; otherwise GO exactly when all five
\* checks pass; otherwise REVIEW.  BEAR with everything else passing is
\* REVIEW.
C4_StatusAggregation ==
    ChkDone =>
        LET in == Val(chk_in)
            r == ChkResult
            blocked == EarningsWithinGate(in)
                        \/ (IsSome(in.trade_plan) /\ Val(in.trade_plan).risk_pct > 50)
            all_five == r.stop_loss_defined /\ r.position_sized_correctly
                          /\ r.rr_ratio_acceptable /\ r.no_earnings_imminent
                          /\ r.regime_compatible
        IN /\ r.status = (IF blocked THEN "BLOCKED"
                          ELSE IF all_five THEN "GO" ELSE "REVIEW")
           /\ (in.regime_id = "BEAR" /\ r.stop_loss_defined
                 /\ r.position_sized_correctly /\ r.rr_ratio_acceptable
                 /\ r.no_earnings_imminent) => r.status = "REVIEW"

\* C4 witness: BEAR regime, the other four checks pass, status REVIEW
C4_Witness ==
    /\ ChkDone /\ Val(chk_in).regime_id = "BEAR"
    /\ ChkResult.stop_loss_defined /\ ChkResult.position_sized_correctly
    /\ ChkResult.rr_ratio_acceptable /\ ChkResult.no_earnings_imminent
    /\ ChkResult.status = "REVIEW"

----------------------------------------------------------------------------
(* Properties of rule evaluation (SpecAggregate) *)

AggDone == IsSome(agg_out)
AggResult == Val(agg_out)
NBuy == Len(SignalsOf(Val(agg_in).results, "BUY", 1))
NSell == Len(SignalsOf(Val(agg_in).results, "SELL", 1))
NWatch == Len(SignalsOf(Val(agg_in).results, "WATCH", 1))

\* C5 (as claimed): with equal BUY and SELL trigger counts (at least one of
\* each), rule evaluation yields no aggregated signal of any type.
C5_TieYieldsNothing ==
    (AggDone /\ NBuy >= 1 /\ NBuy = NSell) => IsNone(AggResult)

\* C5 (amended): with equal BUY and SELL trigger counts (at least one of
\* each), rule evaluation yields no BUY and no SELL aggregate; it yields a
\* WATCH aggregate exactly when at least one WATCH rule triggered.
C5_TieYieldsNoActionable ==
    (AggDone /\ NBuy >= 1 /\ NBuy = NSell) =>
        /\ IsSome(AggResult) => Val(AggResult).signal_type = "WATCH"
        /\ IsSome(AggResult) <=> NWatch >= 1

\* C5 witness: a two-against-two tie with no WATCH rule, no signal
C5_Witness ==
    AggDone /\ NBuy = 2 /\ NSell = 2 /\ NWatch = 0 /\ IsNone(AggResult)

\* C6: with the consensus gate on, no BUY or SELL aggregate is produced from
\* fewer than consensus_min_rules rules of the winning direction; a WATCH
\* aggregate is produced whatever the number of WATCH rules.
C6_ConsensusGate ==
    AggDone =>
        LET in == Val(agg_in) IN
        /\ (in.require_consensus /\ IsSome(AggResult)
              /\ Val(AggResult).signal_type \in {"BUY", "SELL"})
            => Val(AggResult).rules_triggered >= in.consensus_min_rules
        /\ (in.require_consensus /\ NBuy # NSell
              /\ (IF NBuy > NSell THEN NBuy ELSE NSell) < in.consensus_min_rules)
            => IsNone(AggResult)
        /\ (NBuy = NSell /\ NWatch >= 1)
            => (IsSome(AggResult) /\ Val(AggResult).signal_type = "WATCH"
                  /\ Val(AggResult).rules_triggered = NWatch)

\* C6 witness: gate on with minimum 3, two BUY rules against one SELL, dropped
C6_Witness ==
    /\ AggDone /\ Val(agg_in).require_consensus /\ Val(agg_in).consensus_min_rules = 3
    /\ NBuy = 2 /\ NSell = 1 /\ IsNone(AggResult)

----------------------------------------------------------------------------
(* Properties of confidence aggregation (SpecConfidence) *)

ConfDone == IsSome(conf_out)

\* C7: for a SELL or WATCH aggregate the regime multiplier is 1.0 in every
\* regime and the aggregate confidence is the consensus-boost value; only BUY
\* aggregates are scaled.
C7_OnlyBuyScaled ==
    ConfDone =>
        LET in == Val(conf_in)
            out == Val(conf_out)
        IN /\ in.signal_type \in {"SELL", "WATCH"}
                => (out.multiplier = ROne
                      /\ out.signal.aggregate_confidence = out.boosted)
           /\ out.signal.aggregate_confidence # out.boosted
                => in.signal_type = "BUY"

\* C7 witness: a SELL aggregate under BEAR keeps its boosted confidence
C7_Witness ==
    /\ ConfDone /\ Val(conf_in).signal_type = "SELL" /\ Val(conf_in).regime = "BEAR"
    /\ Val(conf_out).signal.aggregate_confidence = Val(conf_out).boosted
    /\ Val(conf_out).boosted = Rat(80, 100)

\* C8 (as claimed): the base confidence of an aggregate is the average of the
\* triggering rules' confidences weighted by the configured rule weights.
C8_BaseUsesConfiguredWeights ==
    ConfDone =>
        Val(conf_out).base_confidence
            = weighted_average(Val(conf_in).signals, Val(conf_in).rule_weights)

AllSameConfidence(signals) ==
    \A i \in 1..Len(signals) : signals[i].confidence = signals[1].confidence

----------------------------------------------------------------------------
(* state_manager.py: StateManager *)

DEFAULT_MAX_HISTORY == 50   \* SignalHistory.max_history
DEQUE_MAXLEN == 50          \* deque(maxlen=50)

\* get_state: the entry is created on first access
get_state(sts, symbol) ==
    IF symbol \in DOMAIN sts THEN sts
    ELSE [s \in DOMAIN sts \cup {symbol} |-> IF s = symbol THEN SymbolState ELSE sts[s]]

update_indicators_clearing(sts, symbol, timestamp) ==
    [get_state(sts, symbol) EXCEPT ![symbol].last_update = Some(timestamp),
                                   ![symbol].current_signal = None]

update_indicators(sts, symbol, timestamp) ==
    [get_state(sts, symbol) EXCEPT ![symbol].last_update = Some(timestamp)]

\* record_signal, the current signal; the history part is record_history
record_signal(sts, symbol, signal) ==
    [get_state(sts, symbol) EXCEPT ![symbol].current_signal = Some(signal)]

add_signal_unbounded(signals, signal) == Append(signals, signal)

\* SignalHistory.add_signal: append to the deque, which drops its oldest
\* element when it already holds maxlen elements
add_signal(signals, signal) ==
    IF Len(signals) >= DEQUE_MAXLEN THEN Append(Tail(signals), signal)
    ELSE Append(signals, signal)

RECURSIVE add_signals(_, _, _)
\* the loop "for rule_signal in signal.contributing_signals"
add_signals(signals, contributing, i) ==
    IF i > Len(contributing) THEN signals
    ELSE add_signals(add_signal(signals, contributing[i]), contributing, i + 1)

\* record_signal, the history part.  h holds the deques of the symbols whose
\* history a specification observes; rule outcomes are inputs of the model,
\* so the history never feeds back into the handler and a specification may
\* leave it unobserved (h empty).
record_history(h, symbol, signal) ==
    IF symbol \in DOMAIN h
    THEN [h EXCEPT ![symbol] = add_signals(@, signal.contributing_signals, 1)]
    ELSE h

open_position(sts, symbol) ==
    [get_state(sts, symbol) EXCEPT ![symbol].has_position = TRUE]

close_position(sts, symbol) ==
    [get_state(sts, symbol) EXCEPT ![symbol].has_position = FALSE]

get_position(sts, symbol) == get_state(sts, symbol)[symbol].has_position

\* get_all_current_signals: the symbols that have a current signal
get_all_current_signals(sts) == {s \in DOMAIN sts : IsSome(sts[s].current_signal)}

\* StateManager defines no evict_stale_states: the call at service.py:664
\* raises AttributeError and removes nothing
evict_stale_states == "AttributeError"

----------------------------------------------------------------------------
(* trade_planner.py: TradePlanEngine.generate, step 7 *)

DEFAULT_MIN_RR == 20    \* min_rr_ratio 2.0, in tenths

\* has_config: the symbol has a configured exit strategy; shares: the sized
\* position
generate_plan_valid(has_config, rr_ratio, shares) ==
    IF shares = 0 THEN FALSE
    ELSE has_config \/ rr_ratio >= DEFAULT_MIN_RR

\* the plan generate returns, reduced to the fields read downstream
GeneratedPlan(stop_price, risk_pct, rr_ratio, has_config, shares) ==
    TradePlan(stop_price, risk_pct, rr_ratio,
              generate_plan_valid(has_config, rr_ratio, shares))

----------------------------------------------------------------------------
(* trade_planner.py: setup, entry, stop and invalidation of generate *)

DEFAULT_ATR_MULTIPLIER == 2     \* atr_multiplier 2.0
DEFAULT_STOP_MIN_PCT == 3       \* stop_min_pct 3.0
DEFAULT_STOP_MAX_PCT == 15      \* stop_max_pct 15.0

\* round(x, 2): the nearest hundredth, a tie going to the even one
Round2(x) ==
    LET q == (x.n * 100) \div x.d
        r == (x.n * 100) % x.d
    IN IF 2 * r < x.d THEN Rat(q, 100)
       ELSE IF 2 * r > x.d THEN Rat(q + 1, 100)
       ELSE IF q % 2 = 0 THEN Rat(q, 100) ELSE Rat(q + 1, 100)

\* f"{x:.0f}": the nearest integer, a tie going to the even one
Round0(x) ==
    LET q == x.n \div x.d
        r == x.n % x.d
    IN IF 2 * r < x.d THEN q
       ELSE IF 2 * r > x.d THEN q + 1
       ELSE IF q % 2 = 0 THEN q ELSE q + 1

OversoldRules ==
    {"Enhanced Buy Dip", "Momentum Reversal", "Buy Dip in Uptrend",
     "Strong Buy Signal", "RSI + MACD Confluence", "Dip Recovery"}

_classify_setup(rule_names) ==
    IF rule_names \cap OversoldRules # {} THEN "OVERSOLD_BOUNCE"
    ELSE IF "Trend Continuation" \in rule_names THEN "PULLBACK_TO_SUPPORT"
    ELSE IF rule_names \cap {"Commodity Breakout", "Volume Breakout"} # {} THEN "BREAKOUT"
    ELSE "SIGNAL"

\* _entry_zone, the entry price
entry_of(setup_type, close, sma_20) ==
    CASE setup_type = "PULLBACK_TO_SUPPORT" -> sma_20
      [] setup_type = "BREAKOUT" -> RMul(close, Rat(1001, 1000))
      [] OTHER -> close

floor_pct_same(stop_min_pct) == stop_min_pct

\* floor_pct = self.stop_min_pct + 1.0
floor_pct(stop_min_pct) == stop_min_pct + 1

\* step 1 of _calculate_stop.  symbol_stop_pct: the configured stop_loss
\* fraction of the symbol, None when it has none
base_stop(symbol_stop_pct, entry_price, atr) ==
    IF IsSome(symbol_stop_pct)
    THEN [raw_stop |-> RMul(entry_price, RSub(ROne, Val(symbol_stop_pct))),
          stop_pct |-> RMul(Val(symbol_stop_pct), RInt(100)),
          stop_method |-> "config_" \o ToString(Round0(RMul(Val(symbol_stop_pct), RInt(100)))) \o "pct",
          warnings |-> {}]
    ELSE LET atr_stop == RSub(entry_price, RMul(atr, RInt(DEFAULT_ATR_MULTIPLIER)))
             atr_pct == RMul(RDiv(RSub(entry_price, atr_stop), entry_price), RInt(100))
             fl == floor_pct(DEFAULT_STOP_MIN_PCT)
         IN IF RLt(atr_pct, RInt(DEFAULT_STOP_MIN_PCT))
            THEN [raw_stop |-> RMul(entry_price, RSub(ROne, Rat(fl, 100))),
                  stop_pct |-> RInt(fl),
                  stop_method |-> "percentage_" \o ToString(fl) \o "pct",
                  warnings |-> {"widened"}]
            ELSE IF RLt(RInt(DEFAULT_STOP_MAX_PCT), atr_pct)
            THEN [raw_stop |-> RMul(entry_price, Rat(90, 100)),
                  stop_pct |-> RInt(10),
                  stop_method |-> "percentage_10pct", warnings |-> {"capped"}]
            ELSE [raw_stop |-> atr_stop, stop_pct |-> atr_pct,
                  stop_method |-> "atr_2x", warnings |-> {}]

\* the keys looked up for support levels, in the order of the loop
SupportKeys == <<"SMA_20", "SMA_50", "SMA_200", "BB_LOWER">>

\* best_name.lower()
SupportKeysLower == <<"sma_20", "sma_50", "sma_200", "bb_lower">>

\* indicators: a function from the indicator keys present to their values
support_levels(indicators, entry_price) ==
    {i \in 1..Len(SupportKeys) :
        /\ SupportKeys[i] \in DOMAIN indicators
        /\ RLt(RZero, indicators[SupportKeys[i]])
        /\ RLt(indicators[SupportKeys[i]], entry_price)}

\* the levels within the snap proximity of the stop and above it
snap_candidates(indicators, entry_price, raw_stop) ==
    {i \in support_levels(indicators, entry_price) :
        /\ RLe(RMul(RDiv(RAbs(RSub(indicators[SupportKeys[i]], raw_stop)), entry_price),
                    RInt(100)), Rat(15, 10))
        /\ RLt(raw_stop, indicators[SupportKeys[i]])}

\* the lowest candidate, the first in key order among equals
best_support(indicators, cands) ==
    CHOOSE i \in cands :
        \A j \in cands :
            \/ RLt(indicators[SupportKeys[i]], indicators[SupportKeys[j]])
            \/ (indicators[SupportKeys[i]] = indicators[SupportKeys[j]] /\ i <= j)

_calculate_stop(symbol_stop_pct, entry_price, atr, indicators) ==
    LET base == base_stop(symbol_stop_pct, entry_price, atr)
        cands == snap_candidates(indicators, entry_price, base.raw_stop)
    IN IF cands = {}
       THEN [raw_stop |-> base.raw_stop, stop_method |-> base.stop_method,
             stop_pct |-> base.stop_pct, support_level_used |-> None,
             warnings |-> base.warnings]
       ELSE LET best == best_support(indicators, cands)
                snapped_stop == RMul(indicators[SupportKeys[best]], Rat(995, 1000))
            IN [raw_stop |-> snapped_stop,
                stop_method |-> "support_" \o SupportKeysLower[best],
                stop_pct |-> RMul(RDiv(RSub(entry_price, snapped_stop), entry_price),
                                  RInt(100)),
                support_level_used |->
                    Some([name |-> SupportKeys[best],
                          price |-> Round2(indicators[SupportKeys[best]])]),
                warnings |-> base.warnings \cup {"snapped"}]

_invalidation_price_at_stop(setup_type, raw_stop, sma_50, close, atr) ==
    CASE setup_type = "OVERSOLD_BOUNCE" -> RMin(raw_stop, RMul(sma_50, Rat(99, 100)))
      [] setup_type = "PULLBACK_TO_SUPPORT" -> RMul(sma_50, Rat(99, 100))
      [] setup_type = "BREAKOUT" -> RSub(close, RMul(atr, Rat(1, 2)))
      [] OTHER -> raw_stop

_invalidation_price(setup_type, raw_stop, sma_50, close, atr) ==
    CASE setup_type = "OVERSOLD_BOUNCE" ->
            RMin(RMul(raw_stop, Rat(99, 100)), RMul(sma_50, Rat(99, 100)))
      [] setup_type = "PULLBACK_TO_SUPPORT" -> RMul(sma_50, Rat(99, 100))
      [] setup_type = "BREAKOUT" -> RSub(close, RMul(atr, Rat(1, 2)))
      [] OTHER -> RMul(raw_stop, Rat(99, 100))

\* generate, steps 1 to 4 and the rounding of the returned plan.  The result
\* is None when generate raises ValueError (close <= 0, ATR_14 <= 0, or a
\* stop at or above the entry).  raw_stop and raw_invalidation are the values
\* before rounding.
generate(rule_names, symbol_stop_pct, indicators) ==
    LET close == IF "close" \in DOMAIN indicators THEN indicators["close"] ELSE RZero
        atr == IF "ATR_14" \in DOMAIN indicators THEN indicators["ATR_14"] ELSE RZero
        sma_20 == IF "SMA_20" \in DOMAIN indicators THEN indicators["SMA_20"] ELSE close
        sma_50 == IF "SMA_50" \in DOMAIN indicators THEN indicators["SMA_50"]
                  ELSE RMul(close, Rat(95, 100))
        setup_type == _classify_setup(rule_names)
        entry_price == entry_of(setup_type, close, sma_20)
        stop == _calculate_stop(symbol_stop_pct, entry_price, atr, indicators)
        invalidation == _invalidation_price(setup_type, stop.raw_stop, sma_50, close, atr)
    IN IF RLe(close, RZero) \/ RLe(atr, RZero) THEN None
       ELSE IF RLe(entry_price, stop.raw_stop) THEN None
       ELSE Some([setup_type |-> setup_type,
                  entry_price |-> Round2(entry_price),
                  stop_price |-> Round2(stop.raw_stop),
                  stop_method |-> stop.stop_method,
                  stop_pct |-> Round2(stop.stop_pct),
                  support_level_used |-> stop.support_level_used,
                  invalidation_price |-> Round2(invalidation),
                  warnings |-> stop.warnings,
                  raw_entry |-> entry_price,
                  raw_stop |-> stop.raw_stop,
                  raw_invalidation |-> invalidation])

----------------------------------------------------------------------------
(* The trade planner on its own: generate applied to one request *)

\* rule-name lists of a BUY aggregate, one or two per setup type
PlannerRuleNames ==
    {{"Enhanced Buy Dip"}, {"Trend Continuation"}, {"Volume Breakout"},
     {"Average Down"}, {"Trend Continuation", "Dip Recovery"},
     {"Commodity Breakout", "Trend Continuation"}}

\* stop_loss of the symbol's exit_strategy: none, or 8 %
PlannerConfigStops == {None, Some(Rat(8, 100))}

\* close and ATR_14 pairs: a 100-dollar stock with an ATR of 0 (invalid),
\* 0.5 (stop under the minimum), 2 (ATR stop kept) and 10 (stop over the
\* maximum); a 30-cent stock with an ATR of half a cent
PlannerPrices ==
    {<<RInt(100), RZero>>, <<RInt(100), Rat(1, 2)>>, <<RInt(100), RInt(2)>>,
     <<RInt(100), RInt(10)>>, <<Rat(30, 100), Rat(1, 200)>>}

PlannerSma20 == {None, Some(RInt(98)), Some(Rat(965, 10))}
PlannerSma50 == {None, Some(RInt(97)), Some(RInt(110))}
PlannerBbLower == {None, Some(Rat(965, 10))}

\* the indicators dict of one request
PlannerIndicators(prices, sma_20, sma_50, bb_lower) ==
    [k \in {"close", "ATR_14"}
          \cup (IF IsSome(sma_20) THEN {"SMA_20"} ELSE {})
          \cup (IF IsSome(sma_50) THEN {"SMA_50"} ELSE {})
          \cup (IF IsSome(bb_lower) THEN {"BB_LOWER"} ELSE {}) |->
        CASE k = "close" -> prices[1]
          [] k = "ATR_14" -> prices[2]
          [] k = "SMA_20" -> Val(sma_20)
          [] k = "SMA_50" -> Val(sma_50)
          [] OTHER -> Val(bb_lower)]

PlannerRest ==
    /\ AggRest /\ ConfRest /\ ChkRest /\ PipeRest /\ GsRest /\ HistRest /\ RdrRest
    /\ WkRest /\ CxRest /\ AgRest /\ TrkRest /\ StoreRest

InitPlanner ==
    /\ \E rule_names \in PlannerRuleNames, stop \in PlannerConfigStops,
          prices \in PlannerPrices, sma_20 \in PlannerSma20,
          sma_50 \in PlannerSma50, bb_lower \in PlannerBbLower :
            tp_in = Some([rule_names |-> rule_names, symbol_stop_pct |-> stop,
                          indicators |-> PlannerIndicators(prices, sma_20, sma_50, bb_lower)])
    /\ tp_out = None
    /\ PlannerRest

\* one call of generate; raised when it ends in ValueError
Generate ==
    /\ IsSome(tp_in) /\ IsNone(tp_out)
    /\ \E plan \in {generate(Val(tp_in).rule_names, Val(tp_in).symbol_stop_pct,
                              Val(tp_in).indicators)} :
          tp_out' = Some([raised |-> IsNone(plan), plan |-> plan])
    /\ UNCHANGED <<tp_in, wk, cx, ag, trk, store, pipeVars,
                   aggVars, confVars, chkVars, gsVars, histVars, rdrVars>>

NextPlanner == Generate

SpecPlanner == InitPlanner /\ [][NextPlanner]_vars

----------------------------------------------------------------------------
(* service.py: DecisionEngineService *)

MIN_PUBLISH_CONFIDENCE == 50    \* settings.min_publish_confidence 0.5, in hundredths
DEBOUNCE_MAP_LIMIT == 100       \* len(self._last_publish) > 100
DEBOUNCE_EVICT_AGE == 1800      \* timedelta(minutes=30), in seconds
MAX_SYMBOL_LEN == 10            \* len(symbol) > 10
MIN_RANKED == 2                 \* len(all_signals) < 2

\* An indicator event, reduced to what the boundary checks read.
\*   event_type  - the "event_type" string
\*   symbol      - [kind, name]: kind "str" (name is the text), "none"
\*                 (missing or null) or "int" (a value that is not a string)
\*   indicators  - "empty" (missing or {}), "nondict" (a non-empty value that
\*                 is not a dict), "nonfinite" (a dict holding a NaN or an
\*                 infinite float) or "ok"
\*   data_quality - "absent" (missing or {}), "ready" or "not_ready"
Event(event_type, symbol, indicators, data_quality) ==
    [event_type |-> event_type, symbol |-> symbol, indicators |-> indicators,
     data_quality |-> data_quality]

StrSymbol(name) == [kind |-> "str", name |-> name]
NoSymbol == [kind |-> "none", name |-> ""]
IntSymbol == [kind |-> "int", name |-> ""]

RejectReasons ==
    {"event_type", "missing", "bad_symbol", "bad_indicators", "non_finite",
     "not_ready", "inactive"}

boundary_reject_no_finite_check(event, wiring) ==
    IF event.event_type # "INDICATOR_UPDATE" THEN "event_type"
    ELSE IF event.symbol.kind = "none" \/ event.symbol = StrSymbol("")
            \/ event.indicators = "empty" THEN "missing"
    ELSE IF event.symbol.kind # "str" \/ Len(event.symbol.name) > MAX_SYMBOL_LEN
    THEN "bad_symbol"
    ELSE IF event.indicators = "nondict" THEN "bad_indicators"
    ELSE IF event.data_quality = "not_ready" THEN "not_ready"
    ELSE IF wiring.active_tickers_only /\ event.symbol.name \notin wiring.active_tickers
    THEN "inactive"
    ELSE "none"

\* The checks of handle_indicator_event before its first state change, in
\* the order of the code; "none" when the event passes them all.
boundary_reject(event, wiring) ==
    IF event.event_type # "INDICATOR_UPDATE" THEN "event_type"
    ELSE IF event.symbol.kind = "none" \/ event.symbol = StrSymbol("")
            \/ event.indicators = "empty" THEN "missing"
    ELSE IF event.symbol.kind # "str" \/ Len(event.symbol.name) > MAX_SYMBOL_LEN
    THEN "bad_symbol"
    ELSE IF event.indicators = "nondict" THEN "bad_indicators"
    ELSE IF event.indicators = "nonfinite" THEN "non_finite"
    ELSE IF event.data_quality = "not_ready" THEN "not_ready"
    ELSE IF wiring.active_tickers_only /\ event.symbol.name \notin wiring.active_tickers
    THEN "inactive"
    ELSE "none"

\* Exception classes that can be raised inside the handler's try block
RULES_ERROR == "TypeError"          \* SymbolContext(...) or a rule's evaluate
PUBLISH_ERROR == "RuntimeError"     \* producer.publish_decision
ExceptionClasses == {"TypeError", "RuntimeError", "AttributeError"}

outer_except_kafka_only(cls) == cls \in {"KafkaError"}

\* "except Exception as e" around the whole handler body
outer_except(cls) == cls \in ExceptionClasses

\* The BLOCKED gate of handle_indicator_event
ChecklistBlocksNever(checklist_result) == FALSE

ChecklistBlocks(checklist_result) ==
    IsSome(checklist_result) /\ Val(checklist_result).status = "BLOCKED"

PlanSuppressesOrMissing(trade_plan, signal) ==
    signal.signal_type = "BUY" /\ (IsNone(trade_plan) \/ ~Val(trade_plan).plan_valid)

PlanSuppressesLowRR(trade_plan, signal) ==
    /\ IsSome(trade_plan) /\ signal.signal_type = "BUY"
    /\ Val(trade_plan).risk_reward_ratio < DEFAULT_MIN_RR

\* The R:R gate: a BUY whose plan exists and is not valid
PlanSuppresses(trade_plan, signal) ==
    IsSome(trade_plan) /\ signal.signal_type = "BUY" /\ ~Val(trade_plan).plan_valid

\* _should_publish drops stale debounce entries once the map is large
evict_last_publish(lp, t) ==
    IF Cardinality(DOMAIN lp) > DEBOUNCE_MAP_LIMIT
    THEN LET keep == {s \in DOMAIN lp : lp[s] > t - DEBOUNCE_EVICT_AGE}
         IN [s \in keep |-> lp[s]]
    ELSE lp

BelowThreshold(signal) ==
    RLt(signal.aggregate_confidence, Rat(MIN_PUBLISH_CONFIDENCE, 100))

Debounced(lp, symbol, t, debounce_seconds) ==
    symbol \in DOMAIN lp /\ t - lp[symbol] < debounce_seconds

SellSuppressedUntracked(symbol, signal, wiring, sts) ==
    signal.signal_type = "SELL" /\ ~get_position(sts, symbol)

\* the SELL gate of _should_publish
SellSuppressed(symbol, signal, wiring, sts) ==
    signal.signal_type = "SELL" /\ wiring.tracker_connected /\ ~get_position(sts, symbol)

\* lp: the debounce map after evict_last_publish
_should_publish(symbol, signal, lp, t, wiring, sts) ==
    IF BelowThreshold(signal) THEN FALSE
    ELSE IF Debounced(lp, symbol, t, wiring.debounce_seconds) THEN FALSE
    ELSE IF SellSuppressed(symbol, signal, wiring, sts) THEN FALSE
    ELSE TRUE

RiskDropsOnError(risk_called, risk) == risk_called /\ risk \in {"reject", "raise"}

\* the risk check: only a result that does not pass stops the publish; an
\* exception inside check_risk is caught and leaves risk_result None
RiskRejects(risk_called, risk) == risk_called /\ risk = "reject"

NoRanking(lrp) == [ran |-> FALSE, lrp |-> lrp, raised |-> "none", buy |-> {}]

\* ranker.rank(all_signals, signal_type), the symbols it lists
ranked_symbols(sts, signal_type) ==
    {s \in get_all_current_signals(sts) : Val(sts[s].current_signal).signal_type = signal_type}

\* _maybe_publish_rankings at time t.  ran: the rankings were published and
\* line 664 was reached; raised: the exception that leaves the function;
\* buy: the symbols listed in the BUY ranking published.
_maybe_publish_rankings(t, lrp, sts, wiring) ==
    IF IsSome(lrp) /\ t - Val(lrp) < wiring.ranking_interval_seconds THEN NoRanking(lrp)
    ELSE IF Cardinality(get_all_current_signals(sts)) < MIN_RANKED THEN NoRanking(lrp)
    ELSE [ran |-> TRUE, lrp |-> Some(t), raised |-> evict_stale_states,
          buy |-> ranked_symbols(sts, "BUY")]

\* The trace of one handler call, before anything happened in it
Trace(event, reject, t) ==
    [event |-> event, symbol |-> event.symbol.name, reject |-> reject, time |-> t,
     evaluated |-> FALSE, signal |-> None, plan_raised |-> FALSE, trade_plan |-> None,
     checklist_raised |-> FALSE, checklist_result |-> None,
     last_before |-> None, prev_decision |-> None, had_position |-> FALSE,
     risk |-> "none", published |-> FALSE, decision |-> None,
     ranked |-> FALSE, ranked_buy |-> {}, raised |-> "none", propagated |-> FALSE]

\* handle_indicator_event.  results: the outcomes of the symbol's rules on
\* this event; plan_gen: the plan TradePlanEngine.generate returns, None when
\* it raises; read: what the earnings lookup does; risk: what
\* risk_adapter.check_risk does ("pass", "reject", "raise"); fault: where an
\* exception is raised in this call ("none", "rules": inside _evaluate_rules,
\* "publish": inside producer.publish_decision).
\* SymbolContext as declared in rules/base.py has no metadata field although
\* service.py passes one and enhanced_rules.py reads it; the model follows
\* service.py and takes the context to be built unless fault = "rules".
handle_indicator_event(event, results, plan_gen, read, risk, fault) ==
    \E reject \in {boundary_reject(event, svc)} :
    IF reject # "none"
    THEN /\ ev' = Some(Trace(event, reject, now))
         /\ UNCHANGED <<now, svc, reader_regime, states, last_publish,
                        decision_log, blocked_log, last_ranking_publish, histories>>
    ELSE
    \E symbol \in {event.symbol.name}, timestamp \in {now} :
    \E states1 \in {update_indicators(states, symbol, timestamp)} :
    IF fault = "rules"
    THEN /\ states' = states1
         /\ ev' = Some([Trace(event, "none", now) EXCEPT
                          !.evaluated = TRUE,
                          !.raised = RULES_ERROR,
                          !.propagated = ~outer_except(RULES_ERROR)])
         /\ UNCHANGED <<now, svc, reader_regime, last_publish, decision_log, blocked_log,
                        last_ranking_publish, histories>>
    ELSE
    \E aggregated_signal \in {_evaluate_rules(symbol, results, timestamp,
                                              svc.require_consensus,
                                              svc.consensus_min_rules, reader_regime)} :
    IF IsNone(aggregated_signal)
    THEN \E rk \in {_maybe_publish_rankings(now, last_ranking_publish, states1, svc)} :
         /\ states' = states1
         /\ last_ranking_publish' = rk.lrp
         /\ ev' = Some([Trace(event, "none", now) EXCEPT
                          !.evaluated = TRUE,
                          !.ranked = rk.ran, !.ranked_buy = rk.buy, !.raised = rk.raised,
                          !.propagated = rk.raised # "none" /\ ~outer_except(rk.raised)])
         /\ UNCHANGED <<now, svc, reader_regime, last_publish, decision_log, blocked_log, histories>>
    ELSE
    \E signal \in {Val(aggregated_signal)} :
    \E states2 \in {record_signal(states1, symbol, signal)},
       is_buy \in {signal.signal_type = "BUY"} :
    \E plan_called \in {is_buy /\ svc.plan_engine} :
    \E trade_plan \in {IF plan_called THEN plan_gen ELSE None} :
    \E checklist_raised \in {is_buy /\ evaluate_raises(trade_plan, signal.regime_id,
                                                       svc.checklist_client, read)} :
    \E checklist_result \in {IF is_buy /\ ~checklist_raised
                             THEN Some(evaluate(trade_plan, signal.regime_id,
                                                svc.checklist_client, read))
                             ELSE None} :
    \E stopped \in {ChecklistBlocks(checklist_result)
                      \/ PlanSuppresses(trade_plan, signal)} :
    \E lp1 \in {IF stopped \/ BelowThreshold(signal) THEN last_publish
                ELSE evict_last_publish(last_publish, now)} :
    \E should \in {~stopped /\ _should_publish(symbol, signal, lp1, now, svc, states2)} :
    \E risk_called \in {should /\ svc.risk_adapter /\ is_buy} :
    \E publish_called \in {should /\ ~RiskRejects(risk_called, risk)} :
    \E published \in {publish_called /\ fault # "publish"} :
    \E rk \in {IF stopped \/ (publish_called /\ ~published)
               THEN NoRanking(last_ranking_publish)
               ELSE _maybe_publish_rankings(now, last_ranking_publish, states2, svc)} :
    \E raised \in {IF publish_called /\ ~published THEN PUBLISH_ERROR ELSE rk.raised} :
       /\ states' = states2
       /\ histories' = record_history(histories, symbol, signal)
       /\ last_publish' =
            IF published
            THEN [s \in DOMAIN lp1 \cup {symbol} |-> IF s = symbol THEN now ELSE lp1[s]]
            ELSE lp1
       /\ decision_log' =
            IF published
            THEN [s \in DOMAIN decision_log \cup {symbol} |->
                    IF s = symbol THEN now ELSE decision_log[s]]
            ELSE decision_log
       /\ blocked_log' =
            IF ChecklistBlocks(checklist_result)
            THEN blocked_log \cup {symbol} ELSE blocked_log \ {symbol}
       /\ last_ranking_publish' = rk.lrp
       /\ ev' = Some([Trace(event, "none", now) EXCEPT
                        !.evaluated = TRUE,
                        !.signal = aggregated_signal,
                        !.plan_raised = plan_called /\ IsNone(plan_gen),
                        !.trade_plan = trade_plan,
                        !.checklist_raised = checklist_raised,
                        !.checklist_result = checklist_result,
                        !.last_before = IF symbol \in DOMAIN last_publish
                                        THEN Some(last_publish[symbol]) ELSE None,
                        !.prev_decision = IF symbol \in DOMAIN decision_log
                                          THEN Some(decision_log[symbol]) ELSE None,
                        !.had_position = get_position(states2, symbol),
                        !.risk = IF risk_called THEN risk ELSE "none",
                        !.published = published,
                        !.decision =
                            IF published
                            THEN Some([symbol |-> symbol,
                                       signal_type |-> signal.signal_type,
                                       trade_plan |-> trade_plan,
                                       checklist_result |-> checklist_result,
                                       risk_result |->
                                         IF risk_called /\ risk # "raise"
                                         THEN Some(risk) ELSE None])
                            ELSE None,
                        !.ranked = rk.ran,
                        !.ranked_buy = rk.buy,
                        !.raised = raised,
                        !.propagated = raised # "none" /\ ~outer_except(raised)])
       /\ UNCHANGED <<now, svc, reader_regime>>

\* _on_position_open / _on_position_close: the position tracker's callbacks
\* on a fill.  (_on_scale_in changes only the position's share count and cost,
\* which the model does not hold.)
_on_position_open(symbol) ==
    /\ states' = open_position(states, symbol)
    /\ UNCHANGED <<now, svc, reader_regime, last_publish, ev, decision_log, blocked_log,
                   last_ranking_publish, histories>>

_on_position_close(symbol) ==
    /\ states' = close_position(states, symbol)
    /\ UNCHANGED <<now, svc, reader_regime, last_publish, ev, decision_log, blocked_log,
                   last_ranking_publish, histories>>

----------------------------------------------------------------------------
(* The decision pipeline *)

\* service wiring after initialize(): which collaborators are present or
\* connected, and the settings the handler reads
Wirings ==
    {[checklist_client |-> cc, tracker_connected |-> tc, plan_engine |-> pe,
      risk_adapter |-> ra, require_consensus |-> FALSE, consensus_min_rules |-> 1,
      debounce_seconds |-> 1, ranking_interval_seconds |-> 1,
      active_tickers_only |-> ao, active_tickers |-> {"ZZZ"}] :
        cc \in BOOLEAN, tc \in BOOLEAN, pe \in BOOLEAN, ra \in BOOLEAN,
        ao \in BOOLEAN}

MissingCollaborators(w) ==
    Cardinality({f \in {"checklist_client", "tracker_connected", "plan_engine"} : ~w[f]})

\* the wirings explored: at most one of the checklist client, the position
\* tracker and the plan engine missing; the risk adapter and the
\* active_tickers_only whitelist (which leaves the symbol out) only with all
\* three present
PipeWirings ==
    {w \in Wirings :
        /\ MissingCollaborators(w) <= 1
        /\ (w.risk_adapter \/ w.active_tickers_only) => MissingCollaborators(w) = 0
        /\ ~(w.risk_adapter /\ w.active_tickers_only)}

PipeResults ==
    {<<RuleOutcome("none", "BUY", 0), RuleOutcome("none", "BUY", 0)>>,
     <<RuleOutcome("hit", "BUY", 60), RuleOutcome("none", "BUY", 0)>>,
     <<RuleOutcome("hit", "SELL", 95), RuleOutcome("none", "BUY", 0)>>,
     <<RuleOutcome("hit", "WATCH", 60), RuleOutcome("skip", "BUY", 0)>>,
     <<RuleOutcome("hit", "BUY", 95), RuleOutcome("hit", "SELL", 95)>>}

\* generate raising; a valid plan; R:R below the minimum; risk over 5 %; a
\* position that cannot be sized (zero shares)
PipePlanGens ==
    {None, Some(GeneratedPlan(43, 15, 25, FALSE, 10)),
     Some(GeneratedPlan(43, 15, 15, FALSE, 10)),
     Some(GeneratedPlan(43, 51, 25, FALSE, 10)),
     Some(GeneratedPlan(43, 15, 25, FALSE, 0))}

PipeReads ==
    {EarningsRead("absent", "int", 0, "none"),
     EarningsRead("data", "int", 3, "fresh"), EarningsRead("data", "null", 0, "fresh")}

RiskOutcomes == {"pass", "reject", "raise"}
RefreshedRegimes == {"UNKNOWN", "BEAR"}

GoodEvent(symbol) == Event("INDICATOR_UPDATE", StrSymbol(symbol), "ok", "ready")

\* events that differ from a good one in one field
PipeEvents ==
    {GoodEvent(s) : s \in Symbols}
    \cup {Event("ORDER_FILLED", StrSymbol("AAA"), "ok", "ready")}
    \cup {Event("INDICATOR_UPDATE", sym, "ok", "ready") :
            sym \in {NoSymbol, IntSymbol, StrSymbol(""), StrSymbol("ABCDEFGHIJK")}}
    \cup {Event("INDICATOR_UPDATE", StrSymbol("AAA"), i, "ready") :
            i \in {"empty", "nondict", "nonfinite"}}
    \cup {Event("INDICATOR_UPDATE", StrSymbol("AAA"), "ok", "not_ready")}

NoRead == EarningsRead("absent", "int", 0, "none")

Init ==
    /\ now = 0
    /\ svc \in PipeWirings
    /\ reader_regime = "UNKNOWN"
    /\ states = [s \in {} |-> SymbolState]
    /\ last_publish = [s \in {} |-> 0]
    /\ ev = None
    /\ decision_log = [s \in {} |-> 0]
    /\ blocked_log = {}
    /\ last_ranking_publish = None
    /\ histories = [s \in {} |-> <<>>]
    /\ AggRest /\ ConfRest /\ ChkRest /\ GsRest /\ HistRest /\ RdrRest /\ LateRest

\* The inputs that the handler does not consult are not enumerated.  No
\* position is open in this specification (see SpecSell for positions).
HandleEvent ==
    \/ \E event \in PipeEvents :
         /\ boundary_reject(event, svc) # "none"
         /\ handle_indicator_event(event, <<>>, None, NoRead, "pass", "none")
         /\ UNCHANGED studyVars
    \/ \E event \in PipeEvents, results \in PipeResults :
         /\ boundary_reject(event, svc) = "none"
         /\ \E sig \in {_evaluate_rules(event.symbol.name, results, now,
                                        svc.require_consensus,
                                        svc.consensus_min_rules, reader_regime)} :
            IF IsSome(sig) /\ Val(sig).signal_type = "BUY"
            THEN \E plan_gen \in PipePlanGens, read \in PipeReads,
                    risk \in (IF svc.risk_adapter THEN RiskOutcomes ELSE {"pass"}) :
                   /\ handle_indicator_event(event, results, plan_gen, read, risk, "none")
                   /\ UNCHANGED studyVars
            ELSE /\ handle_indicator_event(event, results, None, NoRead, "pass", "none")
                 /\ UNCHANGED studyVars

\* time passes
Tick ==
    /\ now < MaxTime
    /\ now' = now + 1
    /\ UNCHANGED <<svc, reader_regime, states, last_publish, ev, decision_log, blocked_log,
                   last_ranking_publish, histories, studyVars>>

\* MarketContextReader._refresh stores the regime it read
RegimeRefresh ==
    /\ \E r \in RefreshedRegimes : reader_regime' = r
    /\ UNCHANGED <<now, svc, states, last_publish, ev, decision_log, blocked_log,
                   last_ranking_publish, histories, studyVars>>

Next == HandleEvent \/ Tick \/ RegimeRefresh

Spec == Init /\ [][Next]_vars

----------------------------------------------------------------------------
(* SELL signals and tracked positions *)

\* the position tracker connected or not; no risk adapter, no whitelist
SellWirings ==
    {w \in Wirings : /\ w.checklist_client /\ w.plan_engine
                     /\ ~w.risk_adapter /\ ~w.active_tickers_only}

SellResults ==
    {<<RuleOutcome("none", "BUY", 0), RuleOutcome("none", "BUY", 0)>>,
     <<RuleOutcome("hit", "SELL", 95), RuleOutcome("none", "BUY", 0)>>,
     <<RuleOutcome("hit", "SELL", 40), RuleOutcome("none", "BUY", 0)>>,
     <<RuleOutcome("hit", "WATCH", 60), RuleOutcome("skip", "BUY", 0)>>}

\* positions loaded by _load_positions_from_redis during initialize()
LoadedPositions ==
    {[s \in {} |-> SymbolState], open_position([s \in {} |-> SymbolState], "AAA")}

InitSell ==
    /\ now = 0
    /\ svc \in SellWirings
    /\ reader_regime = "UNKNOWN"
    /\ states \in LoadedPositions
    /\ last_publish = [s \in {} |-> 0]
    /\ ev = None
    /\ decision_log = [s \in {} |-> 0]
    /\ blocked_log = {}
    /\ last_ranking_publish = None
    /\ histories = [s \in {} |-> <<>>]
    /\ AggRest /\ ConfRest /\ ChkRest /\ GsRest /\ HistRest /\ RdrRest /\ LateRest

HandleSellEvent ==
    /\ \E symbol \in Symbols, results \in SellResults :
         handle_indicator_event(GoodEvent(symbol), results, None, NoRead, "pass", "none")
    /\ UNCHANGED studyVars

\* fills seen by the position tracker, which consumes only when connected
PositionFill ==
    /\ svc.tracker_connected
    /\ \E symbol \in Symbols :
         \/ _on_position_open(symbol)
         \/ _on_position_close(symbol)
    /\ UNCHANGED studyVars

NextSell == HandleSellEvent \/ PositionFill \/ Tick

SpecSell == InitSell /\ [][NextSell]_vars

----------------------------------------------------------------------------
(* Debounce with a large debounce map: time in seconds *)

\* other symbols for which a decision was published earlier
BackgroundSymbols(n) == {"S" \o ToString(i) : i \in 1..n}

\* how many other symbols hold a debounce entry: one below the eviction
\* threshold of _should_publish, and at it
TrackedCounts == {DEBOUNCE_MAP_LIMIT - 1, DEBOUNCE_MAP_LIMIT}

\* settings.debounce_seconds as configured: five minutes, and an hour
DebounceSettings == {300, 3600}

DebounceWirings ==
    {[checklist_client |-> TRUE, tracker_connected |-> TRUE, plan_engine |-> TRUE,
      risk_adapter |-> FALSE, require_consensus |-> FALSE, consensus_min_rules |-> 1,
      debounce_seconds |-> d, ranking_interval_seconds |-> 60,
      active_tickers_only |-> FALSE, active_tickers |-> {"ZZZ"}] :
        d \in DebounceSettings}

DebounceResults ==
    {<<RuleOutcome("none", "BUY", 0), RuleOutcome("none", "BUY", 0)>>,
     <<RuleOutcome("hit", "BUY", 60), RuleOutcome("none", "BUY", 0)>>}

ValidPlan == Some(GeneratedPlan(43, 15, 25, FALSE, 10))

\* the signal published for a background symbol at time 0
BackgroundSignal(s) ==
    _evaluate_rules(s, <<RuleOutcome("hit", "BUY", 60), RuleOutcome("none", "BUY", 0)>>,
                    0, FALSE, 1, "UNKNOWN")

ElapseSteps == {300, 1500}

\* the service at second 0, right after a decision was published for each of
\* n background symbols
InitDebounce ==
    /\ now = 0
    /\ svc \in DebounceWirings
    /\ reader_regime = "UNKNOWN"
    /\ \E n \in TrackedCounts :
         /\ states = [s \in BackgroundSymbols(n) |->
                        [last_update |-> Some(0), current_signal |-> BackgroundSignal(s),
                         has_position |-> FALSE]]
         /\ last_publish = [s \in BackgroundSymbols(n) |-> 0]
         /\ decision_log = [s \in BackgroundSymbols(n) |-> 0]
         /\ blocked_log = {}
    /\ ev = None
    /\ last_ranking_publish = Some(0)
    /\ histories = [s \in {} |-> <<>>]
    /\ AggRest /\ ConfRest /\ ChkRest /\ GsRest /\ HistRest /\ RdrRest /\ LateRest

HandleDebounceEvent ==
    /\ \E symbol \in Symbols, results \in DebounceResults :
         handle_indicator_event(GoodEvent(symbol), results, ValidPlan, NoRead, "pass", "none")
    /\ UNCHANGED studyVars

Elapse ==
    /\ \E step \in ElapseSteps :
         /\ now + step <= MaxClock
         /\ now' = now + step
    /\ UNCHANGED <<svc, reader_regime, states, last_publish, ev, decision_log, blocked_log,
                   last_ranking_publish, histories, studyVars>>

NextDebounce == HandleDebounceEvent \/ Elapse

SpecDebounce == InitDebounce /\ [][NextDebounce]_vars

----------------------------------------------------------------------------
(* Threads making their first access through StateManager.get_state *)

Threads == 1..MaxThreads
ThreadSymbols == {"AAA", "BBB"}

\* threading.RLock: free, or held by its owner (who may enter again)
RLockFree == [owner |-> 0, count |-> 0]

can_acquire_unlocked(lock, t) == TRUE

\* "with self._lock": a thread enters when the lock is free or its own
can_acquire(lock, t) == lock.owner = 0 \/ lock.owner = t

acquire(lock, t) == [owner |-> t, count |-> lock.count + 1]

release(lock) ==
    IF lock.count = 1 THEN RLockFree ELSE [lock EXCEPT !.count = lock.count - 1]

\* StateManager after __init__, with each thread about to call
\* get_state(sym[t]).  entries: _states as symbol -> identity of the stored
\* SymbolState (0: no entry); objects: SymbolState objects constructed per
\* symbol; ret: the identity get_state returned to each thread (0: not yet).
InitThreads ==
    /\ \E sym \in [Threads -> ThreadSymbols] :
         gs = Some([pc |-> [t \in Threads |-> "call"], sym |-> sym, lock |-> RLockFree,
                    entries |-> [s \in ThreadSymbols |-> 0],
                    objects |-> [s \in ThreadSymbols |-> 0],
                    ret |-> [t \in Threads |-> 0]])
    /\ PipeRest /\ AggRest /\ ConfRest /\ ChkRest /\ HistRest /\ RdrRest /\ LateRest

\* line 121: with self._lock
GsEnter(t) ==
    /\ Val(gs).pc[t] = "call"
    /\ can_acquire(Val(gs).lock, t)
    /\ gs' = Some([Val(gs) EXCEPT !.pc[t] = "test", !.lock = acquire(Val(gs).lock, t)])

\* line 122: if symbol not in self._states
GsTest(t) ==
    /\ Val(gs).pc[t] = "test"
    /\ gs' = Some([Val(gs) EXCEPT
                     !.pc[t] = IF Val(gs).entries[Val(gs).sym[t]] = 0
                               THEN "create" ELSE "return"])

\* line 123: self._states[symbol] = SymbolState(symbol=symbol)
GsCreate(t) ==
    /\ Val(gs).pc[t] = "create"
    /\ \E s \in {Val(gs).sym[t]} :
         gs' = Some([Val(gs) EXCEPT !.pc[t] = "return",
                                    !.objects[s] = @ + 1,
                                    !.entries[s] = Val(gs).objects[s] + 1])

\* line 124: return self._states[symbol], leaving the with block
GsReturn(t) ==
    /\ Val(gs).pc[t] = "return"
    /\ gs' = Some([Val(gs) EXCEPT !.pc[t] = "done",
                                  !.ret[t] = Val(gs).entries[Val(gs).sym[t]],
                                  !.lock = release(Val(gs).lock)])

GetStateStep ==
    /\ \E t \in Threads : GsEnter(t) \/ GsTest(t) \/ GsCreate(t) \/ GsReturn(t)
    /\ UNCHANGED <<aggVars, confVars, chkVars, histVars, rdrVars, pipeVars, lateVars>>

NextThreads == GetStateStep

SpecThreads == InitThreads /\ [][NextThreads]_vars

----------------------------------------------------------------------------
(* Signal history: record_signal called directly, many times *)

HistorySymbols == {"AAA", "BBB"}

\* a contributing Signal object; seq tells the objects apart (the order in
\* which they were created for the symbol); two rules fire in turn
RecordedSignal(seq) ==
    [rule_name |-> 2 - (seq % 2), signal_type |-> "BUY", confidence |-> 60, seq |-> seq]

\* an aggregated signal with k contributing signals, the first of them the
\* symbol's (n+1)-th
RecordedAggregate(symbol, n, k) ==
    _aggregate_signals(symbol, "BUY", [i \in 1..k |-> RecordedSignal(n + i)],
                       k, 0, "UNKNOWN")

ContributingCounts == {1, 2}

InitHistory ==
    /\ now = 0
    /\ svc = [checklist_client |-> TRUE, tracker_connected |-> TRUE,
              plan_engine |-> TRUE, risk_adapter |-> FALSE,
              require_consensus |-> FALSE, consensus_min_rules |-> 1,
              debounce_seconds |-> 1, ranking_interval_seconds |-> 1,
              active_tickers_only |-> FALSE, active_tickers |-> {"ZZZ"}]
    /\ reader_regime = "UNKNOWN"
    /\ states = [s \in {} |-> SymbolState]
    /\ last_publish = [s \in {} |-> 0]
    /\ ev = None
    /\ decision_log = [s \in {} |-> 0]
    /\ blocked_log = {}
    /\ last_ranking_publish = None
    /\ histories = [s \in HistorySymbols |-> <<>>]
    /\ hist_log = [s \in HistorySymbols |-> <<>>]
    /\ AggRest /\ ConfRest /\ ChkRest /\ GsRest /\ RdrRest /\ LateRest

\* StateManager.record_signal(symbol, signal)
RecordSignal ==
    /\ \E symbol \in HistorySymbols, k \in ContributingCounts :
         /\ Len(hist_log[symbol]) + k <= MaxRecorded
         /\ \E signal \in {RecordedAggregate(symbol, Len(hist_log[symbol]), k)} :
              /\ states' = record_signal(states, symbol, signal)
              /\ histories' = record_history(histories, symbol, signal)
              /\ hist_log' = [hist_log EXCEPT
                                ![symbol] = @ \o signal.contributing_signals]
    /\ UNCHANGED <<now, svc, reader_regime, last_publish, ev, decision_log, blocked_log,
                   last_ranking_publish, aggVars, confVars, chkVars, gsVars, rdrVars, lateVars>>

NextHistory == RecordSignal

SpecHistory == InitHistory /\ [][NextHistory]_vars

----------------------------------------------------------------------------
(* Two symbols, exceptions inside the handler, the ranking interval *)

IsoSymbols == {"AAA", "BBB"}

IsoWiring ==
    [checklist_client |-> TRUE, tracker_connected |-> TRUE, plan_engine |-> TRUE,
     risk_adapter |-> FALSE, require_consensus |-> FALSE, consensus_min_rules |-> 1,
     debounce_seconds |-> 1, ranking_interval_seconds |-> 1,
     active_tickers_only |-> FALSE, active_tickers |-> {"ZZZ"}]

IsoResults ==
    {<<RuleOutcome("none", "BUY", 0), RuleOutcome("none", "BUY", 0)>>,
     <<RuleOutcome("hit", "BUY", 60), RuleOutcome("none", "BUY", 0)>>}

\* where an exception is raised inside one handler call
Faults == {"none", "rules", "publish"}

\* no position, or a position in BBB loaded by _load_positions_from_redis
IsoLoadedPositions ==
    {[s \in {} |-> SymbolState], open_position([s \in {} |-> SymbolState], "BBB")}

InitIsolation ==
    /\ now = 0
    /\ svc = IsoWiring
    /\ reader_regime = "UNKNOWN"
    /\ states \in IsoLoadedPositions
    /\ last_publish = [s \in {} |-> 0]
    /\ ev = None
    /\ decision_log = [s \in {} |-> 0]
    /\ blocked_log = {}
    /\ last_ranking_publish = None
    /\ histories = [s \in IsoSymbols |-> <<>>]
    /\ AggRest /\ ConfRest /\ ChkRest /\ GsRest /\ HistRest /\ RdrRest /\ LateRest

\* the earnings key is absent; for AAA in a call without a fault, earnings
\* may also be 3 days away
IsoReads(symbol, fault) ==
    IF symbol = "AAA" /\ fault = "none"
    THEN {NoRead, EarningsRead("data", "int", 3, "fresh")} ELSE {NoRead}

HandleIsolationEvent ==
    /\ \E symbol \in IsoSymbols, results \in IsoResults, fault \in Faults :
       \E read \in IsoReads(symbol, fault) :
         /\ Len(histories[symbol]) < MaxEvents
         /\ handle_indicator_event(GoodEvent(symbol), results, ValidPlan, read,
                                   "pass", fault)
    /\ UNCHANGED studyVars

NextIsolation == HandleIsolationEvent \/ Tick

SpecIsolation == InitIsolation /\ [][NextIsolation]_vars

----------------------------------------------------------------------------
(* MarketContextReader: start and the timed refresh *)

\* what one GET of the context key does: raise redis.RedisError ("error"),
\* find no value ("absent"), return a value json.loads / float reject
\* ("invalid"), or return a JSON object ("data") whose regime is the given
\* string ("" when the field is missing) and whose confidence is in hundredths
ContextRead(kind, regime, confidence) ==
    [kind |-> kind, regime |-> regime, confidence |-> confidence]

\* str.upper on the regime strings drawn
Upper(str) ==
    CASE str = "bear" -> "BEAR"
      [] str = "bull" -> "BULL"
      [] OTHER -> str

\* str(data.get("regime", "UNKNOWN")).upper()
new_regime_of(read) == IF read.regime = "" THEN "UNKNOWN" ELSE Upper(read.regime)

_refresh_degrading(regime, confidence, client, read) ==
    IF ~client THEN [regime |-> regime, confidence |-> confidence]
    ELSE IF read.kind = "data"
         THEN [regime |-> new_regime_of(read), confidence |-> read.confidence]
         ELSE [regime |-> "UNKNOWN", confidence |-> 0]

\* _refresh: the reader's regime and confidence after the call
_refresh(regime, confidence, client, read) ==
    IF ~client THEN [regime |-> regime, confidence |-> confidence]
    ELSE IF read.kind \in {"error", "absent", "invalid"}
         THEN [regime |-> regime, confidence |-> confidence]
         ELSE [regime |-> new_regime_of(read), confidence |-> read.confidence]

ContextReads ==
    {ContextRead(k, "", 0) : k \in {"error", "absent", "invalid"}}
    \cup {ContextRead("data", r, c) :
            r \in {"BULL", "bear", "SIDEWAYS", "CRASH", ""}, c \in {0, 60, 85}}

\* MarketContextReader after __init__.  last: what the last start or refresh
\* met; before: the regime held when the last refresh began
ReaderInit ==
    [client |-> FALSE, thread |-> FALSE, started |-> FALSE, regime_confidence |-> 0,
     last |-> "none", before |-> "UNKNOWN"]

InitReader ==
    /\ reader = Some(ReaderInit)
    /\ PipeRest /\ AggRest /\ ConfRest /\ ChkRest /\ GsRest /\ HistRest /\ LateRest

\* start(): ping; on failure no client and no thread; otherwise one _refresh
\* and the refresh thread
Start ==
    /\ ~Val(reader).started
    /\ \/ /\ reader' = Some([Val(reader) EXCEPT !.started = TRUE, !.client = FALSE,
                                                !.last = "start_failed"])
          /\ UNCHANGED reader_regime
       \/ \E read \in ContextReads :
          \E r \in {_refresh(reader_regime, Val(reader).regime_confidence, TRUE, read)} :
            /\ reader_regime' = r.regime
            /\ reader' = Some([Val(reader) EXCEPT !.started = TRUE, !.client = TRUE,
                                                  !.thread = TRUE,
                                                  !.regime_confidence = r.confidence,
                                                  !.last = read.kind,
                                                  !.before = reader_regime])
    /\ UNCHANGED <<now, svc, states, last_publish, ev, decision_log, blocked_log,
                   last_ranking_publish, histories,
                   aggVars, confVars, chkVars, gsVars, histVars, lateVars>>

\* _run: the thread calls _refresh every refresh_interval seconds
TimedRefresh ==
    /\ Val(reader).thread
    /\ \E read \in ContextReads :
       \E r \in {_refresh(reader_regime, Val(reader).regime_confidence,
                          Val(reader).client, read)} :
         /\ reader_regime' = r.regime
         /\ reader' = Some([Val(reader) EXCEPT !.regime_confidence = r.confidence,
                                               !.last = read.kind,
                                               !.before = reader_regime])
    /\ UNCHANGED <<now, svc, states, last_publish, ev, decision_log, blocked_log,
                   last_ranking_publish, histories,
                   aggVars, confVars, chkVars, gsVars, histVars, lateVars>>

NextReader == Start \/ TimedRefresh

SpecReader == InitReader /\ [][NextReader]_vars

----------------------------------------------------------------------------
(* Properties of the decision pipeline (Spec) *)

EvBuy ==
    /\ IsSome(ev) /\ IsSome(Val(ev).signal)
    /\ Val(Val(ev).signal).signal_type = "BUY"

EvBlocked ==
    /\ IsSome(Val(ev).checklist_result)
    /\ Val(Val(ev).checklist_result).status = "BLOCKED"

\* the confidence, debounce and risk gates, from the handler's inputs
EvLaterGate ==
    LET t == Val(ev) IN
    \/ Val(t.signal).aggregate_confidence.n * 100
          < MIN_PUBLISH_CONFIDENCE * Val(t.signal).aggregate_confidence.d
    \/ (IsSome(t.last_before) /\ t.time - Val(t.last_before) < svc.debounce_seconds)
    \/ t.risk = "reject"

\* C1: a BUY signal whose checklist status is BLOCKED is never published,
\* whatever its confidence, trade plan, debounce state or risk outcome.
C1_BlockedNeverPublished ==
    /\ (EvBuy /\ EvBlocked) => (~Val(ev).published /\ IsNone(Val(ev).decision))
    /\ (IsSome(ev) /\ IsSome(Val(ev).decision)
          /\ IsSome(Val(Val(ev).decision).checklist_result))
        => Val(Val(Val(ev).decision).checklist_result).status # "BLOCKED"

\* C1 witness: a BLOCKED BUY that passes every other gate (valid plan,
\* confidence over the threshold, never published before) and is dropped
C1_Witness ==
    /\ EvBuy /\ EvBlocked /\ ~EvLaterGate
    /\ IsSome(Val(ev).trade_plan) /\ Val(Val(ev).trade_plan).plan_valid
    /\ ~Val(ev).published

\* C10: when trade-plan generation raises for a BUY, the checklist is still
\* evaluated with no plan, and the decision is published without a plan
\* unless the checklist is BLOCKED or the confidence, debounce or risk gate
\* applies.
C10_PlanFailureStillPublishes ==
    (EvBuy /\ Val(ev).plan_raised) =>
        LET t == Val(ev) IN
        /\ IsNone(t.trade_plan)
        /\ ~t.checklist_raised =>
              /\ IsSome(t.checklist_result)
              /\ ~Val(t.checklist_result).stop_loss_defined
              /\ ~Val(t.checklist_result).position_sized_correctly
              /\ ~Val(t.checklist_result).rr_ratio_acceptable
        /\ t.published <=> (~EvBlocked /\ ~EvLaterGate)
        /\ t.published => IsNone(Val(t.decision).trade_plan)

\* C10 witness: plan generation raised, checklist REVIEW, decision published
\* with no trade plan
C10_Witness ==
    /\ EvBuy /\ Val(ev).plan_raised /\ Val(ev).published
    /\ IsSome(Val(ev).checklist_result)
    /\ Val(Val(ev).checklist_result).status = "REVIEW"
    /\ IsNone(Val(Val(ev).decision).trade_plan)

\* C11: a BUY whose generated trade plan has plan_valid = false (reward-to-risk
\* below the minimum for a symbol without a configured exit strategy, or a
\* position sized to zero shares) is never published.
C11_InvalidPlanNeverPublished ==
    /\ (EvBuy /\ IsSome(Val(ev).trade_plan) /\ ~Val(Val(ev).trade_plan).plan_valid)
        => (~Val(ev).published /\ IsNone(Val(ev).decision))
    /\ (IsSome(ev) /\ IsSome(Val(ev).decision)
          /\ IsSome(Val(Val(ev).decision).trade_plan))
        => Val(Val(Val(ev).decision).trade_plan).plan_valid

\* C11 witness: a BUY whose plan has an acceptable reward-to-risk ratio but
\* zero shares (plan_valid false), not BLOCKED, past every later gate, dropped
C11_Witness ==
    /\ EvBuy /\ IsSome(Val(ev).trade_plan)
    /\ ~Val(Val(ev).trade_plan).plan_valid
    /\ Val(Val(ev).trade_plan).risk_reward_ratio >= 20
    /\ ~EvBlocked /\ ~EvLaterGate
    /\ ~Val(ev).published

\* C14: when the portfolio-risk check raises for a BUY that passed the
\* earlier gates, the decision is published with no risk annotation; a check
\* that passes publishes with its result attached.
C14_RiskErrorFailsOpen ==
    /\ (EvBuy /\ Val(ev).risk = "raise")
        => (Val(ev).published /\ IsNone(Val(Val(ev).decision).risk_result))
    /\ (EvBuy /\ Val(ev).risk = "pass")
        => (Val(ev).published /\ Val(Val(ev).decision).risk_result = Some("pass"))
    /\ (EvBuy /\ svc.risk_adapter /\ ~EvBlocked /\ ~EvLaterGate
          /\ ~(IsSome(Val(ev).trade_plan) /\ ~Val(Val(ev).trade_plan).plan_valid))
        => Val(ev).risk # "none"

\* C14 witness: the risk check raised and the BUY was published, with its
\* trade plan and without a risk result
C14_Witness ==
    /\ EvBuy /\ Val(ev).risk = "raise" /\ Val(ev).published
    /\ IsSome(Val(Val(ev).decision).trade_plan)
    /\ IsNone(Val(Val(ev).decision).risk_result)

\* the rejections the claim lists, from the event's fields
RejectedAtBoundary(event, wiring) ==
    \/ event.event_type # "INDICATOR_UPDATE"
    \/ event.symbol.kind \in {"none", "int"}
    \/ (event.symbol.kind = "str" /\ Len(event.symbol.name) \in {0} \cup (11..64))
    \/ event.indicators = "nonfinite"
    \/ event.data_quality = "not_ready"
    \/ (wiring.active_tickers_only /\ event.symbol.name \notin wiring.active_tickers)

\* C18: a handler call on an event rejected at the boundary changes no
\* State Manager state (nor the debounce map, the decisions sent or the ranking
\* clock), evaluates no rules, publishes nothing and raises nothing.
C18_RejectedEventChangesNothing ==
    [][(ev' # ev /\ IsSome(ev') /\ RejectedAtBoundary(Val(ev').event, svc))
        => /\ states' = states /\ histories' = histories
           /\ last_publish' = last_publish /\ decision_log' = decision_log
           /\ last_ranking_publish' = last_ranking_publish
           /\ ~Val(ev').evaluated /\ IsNone(Val(ev').signal)
           /\ ~Val(ev').published /\ IsNone(Val(ev').decision) /\ ~Val(ev').ranked
           /\ Val(ev').raised = "none" /\ ~Val(ev').propagated]_vars

\* C18 witness: an event with a non-finite indicator value was turned away
\* while the symbol had stored state
C18_Witness ==
    /\ IsSome(ev) /\ Val(ev).event.indicators = "nonfinite"
    /\ Val(ev).reject = "non_finite"
    /\ "AAA" \in DOMAIN states /\ IsSome(states["AAA"].current_signal)

----------------------------------------------------------------------------
(* Properties of SELL suppression (SpecSell) *)

EvSell ==
    /\ IsSome(ev) /\ IsSome(Val(ev).signal)
    /\ Val(Val(ev).signal).signal_type = "SELL"

\* the confidence and debounce gates, from the handler's inputs
EvSellOtherGate ==
    LET t == Val(ev) IN
    \/ Val(t.signal).aggregate_confidence.n * 100
          < MIN_PUBLISH_CONFIDENCE * Val(t.signal).aggregate_confidence.d
    \/ (IsSome(t.last_before) /\ t.time - Val(t.last_before) < svc.debounce_seconds)

\* C13: with the position tracker connected, a SELL for a symbol without a
\* tracked open position is not published; with the tracker not connected,
\* a SELL is published unless the confidence or debounce gate stops it,
\* whether or not a position is tracked.
C13_SellNeedsTrackedPosition ==
    /\ (EvSell /\ svc.tracker_connected /\ ~Val(ev).had_position) => ~Val(ev).published
    /\ (EvSell /\ svc.tracker_connected /\ Val(ev).had_position)
        => (Val(ev).published <=> ~EvSellOtherGate)
    /\ (EvSell /\ ~svc.tracker_connected) => (Val(ev).published <=> ~EvSellOtherGate)

\* C13 witness: tracker connected, no position, a SELL past the confidence
\* and debounce gates, dropped
C13_Witness ==
    /\ EvSell /\ svc.tracker_connected /\ ~Val(ev).had_position
    /\ ~EvSellOtherGate /\ ~Val(ev).published

----------------------------------------------------------------------------
(* Properties of debouncing (SpecDebounce) *)

\* C12: a decision published for a symbol comes at least debounce_seconds
\* after the previous decision published for that symbol, whatever the
\* configured debounce_seconds and the size of the debounce map
C12_DebounceWindowRespected ==
    (IsSome(ev) /\ Val(ev).published /\ IsSome(Val(ev).prev_decision))
        => Val(ev).time - Val(Val(ev).prev_decision) >= svc.debounce_seconds

----------------------------------------------------------------------------
(* Properties of concurrent first access (SpecThreads) *)

GsDone(t) == IsSome(gs) /\ Val(gs).pc[t] = "done"

\* C15: threads making the first access to the same unseen symbol all receive
\* the identical state object, and one state object is created for the symbol
C15_OneStatePerSymbol ==
    IsSome(gs) =>
        /\ \A s \in ThreadSymbols : Val(gs).objects[s] <= 1
        /\ \A t \in Threads :
              GsDone(t) => /\ Val(gs).ret[t] # 0
                           /\ Val(gs).objects[Val(gs).sym[t]] = 1
        /\ \A t1, t2 \in Threads :
              (GsDone(t1) /\ GsDone(t2) /\ Val(gs).sym[t1] = Val(gs).sym[t2])
                  => Val(gs).ret[t1] = Val(gs).ret[t2]

\* every thread has returned, and all of them asked for the same symbol
C15_Witness ==
    /\ IsSome(gs)
    /\ \A t \in Threads : GsDone(t) /\ Val(gs).sym[t] = "AAA"
    /\ MaxThreads >= 3

----------------------------------------------------------------------------
(* Properties of the signal history (SpecHistory) *)

LastOf(seq, k) == SubSeq(seq, Len(seq) - k + 1, Len(seq))

\* C16: a symbol's history holds at most max_history entries, and they are
\* the most recently recorded contributing signals in recording order
C16_HistoryBoundedMostRecent ==
    \A s \in DOMAIN histories :
        /\ Len(histories[s]) <= DEFAULT_MAX_HISTORY
        /\ histories[s] = LastOf(hist_log[s], Min2(Len(hist_log[s]), DEFAULT_MAX_HISTORY))

\* more signals were recorded for a symbol than its history holds
C16_Witness ==
    \E s \in DOMAIN histories :
        /\ Len(hist_log[s]) > DEFAULT_MAX_HISTORY
        /\ Len(histories[s]) = DEFAULT_MAX_HISTORY
        /\ histories[s][1].seq = Len(hist_log[s]) - DEFAULT_MAX_HISTORY + 1

----------------------------------------------------------------------------
(* Properties of the two-symbol study (SpecIsolation) *)

\* the idle window after which the specification has a symbol entry evicted;
\* the code configures none
IDLE_WINDOW == 1

\* C17: once the handler has reached the eviction sweep that follows the
\* rankings, no symbol entry idle for the idle window or longer remains
C17_IdleEntryEvicted ==
    (IsSome(ev) /\ Val(ev).ranked) =>
        \A s \in DOMAIN states :
            IsSome(states[s].last_update) =>
                Val(ev).time - Val(states[s].last_update) < IDLE_WINDOW

\* C19: an exception raised while handling an event for one symbol does not
\* leave the handler and changes no other symbol's stored state (last update,
\* current signal, position, history)
C19_ExceptionIsolated ==
    [][(IsSome(ev') /\ Val(ev').raised # "none")
         => /\ ~Val(ev').propagated
            /\ \A o \in DOMAIN states :
                  o # Val(ev').symbol
                    => /\ o \in DOMAIN states'
                       /\ states'[o] = states[o]
                       /\ histories'[o] = histories[o]]_vars

\* an exception was raised inside _evaluate_rules for one symbol while the
\* other symbol holds a signal and a history
C19_Witness ==
    /\ IsSome(ev)
    /\ Val(ev).raised = RULES_ERROR
    /\ \E o \in DOMAIN states \ {Val(ev).symbol} :
         /\ IsSome(states[o].current_signal)
         /\ Len(histories[o]) > 0

----------------------------------------------------------------------------
(* Properties of the regime reader (SpecReader) *)

ReaderReportsDefault ==
    reader_regime = "UNKNOWN" /\ get_multiplier("BUY", reader_regime) = Rat(1, 1)

----------------------------------------------------------------------------
(* Trade plans: invalidation and the stop floor (SpecPlanner) *)

PlanMade == IsSome(tp_out) /\ ~Val(tp_out).raised
ThePlan == Val(Val(tp_out).plan)
PlanSupportSetups == {"PULLBACK_TO_SUPPORT", "BREAKOUT"}

\* the ATR stop of the request is under the minimum and the symbol has no
\* configured stop
AtrStopTooTight ==
    /\ PlanMade
    /\ IsNone(Val(tp_in).symbol_stop_pct)
    /\ RLt(RMul(RDiv(RMul(Val(tp_in).indicators["ATR_14"], RInt(DEFAULT_ATR_MULTIPLIER)),
                     ThePlan.raw_entry), RInt(100)),
           RInt(DEFAULT_STOP_MIN_PCT))

\* C21 as stated: every generated plan, whatever its setup type, has an
\* invalidation price strictly below its stop price.
C21_InvalidationBelowStopAlways ==
    PlanMade => RLt(ThePlan.invalidation_price, ThePlan.stop_price)

\* C21: a plan of an oversold bounce or of a plain signal has an
\* invalidation price strictly below its stop before both are rounded to
\* cents and never above it after; a pullback's invalidation price is 1 %
\* under the 50-day average (95 % of the close when there is none) and a
\* breakout's is half an ATR under the close, wherever the stop is.
C21_InvalidationBySetup ==
    PlanMade =>
        /\ ThePlan.setup_type \in {"OVERSOLD_BOUNCE", "SIGNAL"} =>
              /\ RLt(ThePlan.raw_invalidation, ThePlan.raw_stop)
              /\ RLe(ThePlan.invalidation_price, ThePlan.stop_price)
        /\ ThePlan.setup_type = "PULLBACK_TO_SUPPORT" =>
              ThePlan.raw_invalidation =
                  RMul(IF "SMA_50" \in DOMAIN Val(tp_in).indicators
                       THEN Val(tp_in).indicators["SMA_50"]
                       ELSE RMul(Val(tp_in).indicators["close"], Rat(95, 100)),
                       Rat(99, 100))
        /\ ThePlan.setup_type = "BREAKOUT" =>
              ThePlan.raw_invalidation =
                  RSub(Val(tp_in).indicators["close"],
                       RMul(Val(tp_in).indicators["ATR_14"], Rat(1, 2)))

\* a plain-signal plan and a pullback plan whose invalidation price is above
\* its stop have both been generated
C21_Witness ==
    /\ PlanMade
    /\ ThePlan.setup_type = "SIGNAL"
    /\ RLt(ThePlan.invalidation_price, ThePlan.stop_price)
    /\ "snapped" \in ThePlan.warnings

C21_WitnessAbove ==
    /\ PlanMade
    /\ ThePlan.setup_type \in PlanSupportSetups
    /\ RLt(ThePlan.stop_price, ThePlan.invalidation_price)

\* C22 as stated: with no configured stop and an ATR stop under the
\* minimum, the final stop is exactly (minimum + 1) % below the entry and
\* the widening is recorded, whatever the indicators.
C22_FloorExactAlways ==
    AtrStopTooTight =>
        /\ ThePlan.raw_stop =
              RMul(ThePlan.raw_entry, RSub(ROne, Rat(DEFAULT_STOP_MIN_PCT + 1, 100)))
        /\ ThePlan.stop_pct = RInt(DEFAULT_STOP_MIN_PCT + 1)
        /\ "widened" \in ThePlan.warnings

\* C22: with no configured stop and an ATR stop under the minimum, the
\* widening is always recorded; the final stop is exactly (minimum + 1) %
\* below the entry when no support level lies within the snap distance above
\* that stop, and otherwise it is 0.5 % under the support level chosen.
C22_FloorThenSnap ==
    AtrStopTooTight =>
        /\ "widened" \in ThePlan.warnings
        /\ IsNone(ThePlan.support_level_used) =>
              /\ ThePlan.raw_stop =
                    RMul(ThePlan.raw_entry, RSub(ROne, Rat(DEFAULT_STOP_MIN_PCT + 1, 100)))
              /\ ThePlan.stop_pct = RInt(DEFAULT_STOP_MIN_PCT + 1)
              /\ ThePlan.stop_method = "percentage_4pct"
        /\ IsSome(ThePlan.support_level_used) =>
              /\ ThePlan.raw_stop =
                    RMul(Val(tp_in).indicators[Val(ThePlan.support_level_used).name],
                         Rat(995, 1000))
              /\ "snapped" \in ThePlan.warnings

\* a widened stop that was not snapped has been generated
C22_Witness ==
    /\ AtrStopTooTight
    /\ IsNone(ThePlan.support_level_used)
    /\ ThePlan.stop_price = RInt(96)

\* a widened stop that was then snapped to a support level
C22_WitnessSnapped ==
    /\ AtrStopTooTight
    /\ IsSome(ThePlan.support_level_used)
    /\ "widened" \in ThePlan.warnings


----------------------------------------------------------------------------
(* Published BUY decisions and the checklist (Spec) *)

\* C23: every published BUY decision carries a checklist result whose status
\* is GO or REVIEW; a failure inside the checklist evaluation lets no BUY
\* through.
C23_PublishedBuyChecked ==
    (IsSome(ev) /\ Val(ev).published /\ Val(Val(ev).decision).signal_type = "BUY") =>
        /\ IsSome(Val(Val(ev).decision).checklist_result)
        /\ Val(Val(Val(ev).decision).checklist_result).status \in {"GO", "REVIEW"}


----------------------------------------------------------------------------
(* Worker threads in the publish path of handle_indicator_event (SpecWorkers) *)

MaxWorkers == 2         \* worker threads handling events of one symbol
MaxWorkClock == 2       \* seconds on the clock of the study
MaxPublished == 3       \* decisions published in one behaviour

Workers == 1..MaxWorkers
WORK_SYMBOL == "AAA"
WORK_DEBOUNCE == 2      \* settings.debounce_seconds of the study

\* Each worker handles INDICATOR_UPDATE events of WORK_SYMBOL whose BUY
\* aggregate is over the confidence threshold and passes the checklist.
\* pc: "idle", "should" (before _should_publish), "publish" (before
\* producer.publish_decision), "stamp" (before the _last_publish assignment).
\* published: the times of the decisions published, in order.
InitWorkers ==
    /\ wk = Some([now |-> 0, pc |-> [t \in Workers |-> "idle"],
                  last_publish |-> [s \in {} |-> 0], published |-> <<>>])
    /\ PipeRest /\ AggRest /\ ConfRest /\ ChkRest /\ GsRest /\ HistRest /\ RdrRest
    /\ TpRest /\ CxRest /\ AgRest /\ TrkRest /\ StoreRest

WkUnchanged == UNCHANGED <<tp_in, tp_out, cx, ag, trk, store, pipeVars, aggVars, confVars, chkVars, gsVars, histVars, rdrVars>>

\* an event of the symbol is handed to the worker
WkStart(t) ==
    /\ Val(wk).pc[t] = "idle"
    /\ Len(Val(wk).published) < MaxPublished
    /\ wk' = Some([Val(wk) EXCEPT !.pc[t] = "should"])
    /\ WkUnchanged

\* _should_publish: the debounce test against _last_publish
WkShouldPublish(t) ==
    /\ Val(wk).pc[t] = "should"
    /\ wk' = Some([Val(wk) EXCEPT
                     !.pc[t] = IF Debounced(Val(wk).last_publish, WORK_SYMBOL,
                                            Val(wk).now, WORK_DEBOUNCE)
                               THEN "idle" ELSE "publish"])
    /\ WkUnchanged

\* self.producer.publish_decision(...)
WkPublish(t) ==
    /\ Val(wk).pc[t] = "publish"
    /\ Len(Val(wk).published) < MaxPublished
    /\ wk' = Some([Val(wk) EXCEPT !.pc[t] = "stamp",
                                  !.published = Append(@, Val(wk).now)])
    /\ WkUnchanged

\* self._last_publish[symbol] = datetime.utcnow()
WkStamp(t) ==
    /\ Val(wk).pc[t] = "stamp"
    /\ wk' = Some([Val(wk) EXCEPT
                     !.pc[t] = "idle",
                     !.last_publish = [s \in DOMAIN @ \cup {WORK_SYMBOL} |-> Val(wk).now]])
    /\ WkUnchanged

WkTick ==
    /\ Val(wk).now < MaxWorkClock
    /\ wk' = Some([Val(wk) EXCEPT !.now = @ + 1])
    /\ WkUnchanged

NextWorkers ==
    \/ \E t \in Workers : WkStart(t) \/ WkShouldPublish(t) \/ WkPublish(t) \/ WkStamp(t)
    \/ WkTick

SpecWorkers == InitWorkers /\ [][NextWorkers]_vars

\* C24: of the decisions published for one symbol by concurrent workers, any
\* two are at least a debounce window apart.
C24_OnePerWindow ==
    IsSome(wk) =>
        \A i, j \in 1..Len(Val(wk).published) :
            i < j => Val(wk).published[j] - Val(wk).published[i] >= WORK_DEBOUNCE


----------------------------------------------------------------------------
(* Order fills, the position tracker and the rule context (SpecFills) *)

MaxFills == 3           \* ORDER_FILLED messages in one behaviour
MaxContexts == 2        \* rule contexts built in one behaviour

FillSymbols == {"AAA", "BBB"}
FillQuantities == {1, 2}

\* the position fields of a SymbolState
NoPosition == [has_position |-> FALSE, position_side |-> None, position_info |-> None]

\* StateManager.open_position on one SymbolState
position_opened(state, shares) ==
    [has_position |-> TRUE, position_side |-> Some("long"),
     position_info |-> Some([total_shares |-> shares, scale_in_count |-> 0])]

\* StateManager.add_to_position (PositionInfo.add_shares)
position_added(state, shares) ==
    IF ~state.has_position \/ IsNone(state.position_info) THEN state
    ELSE [state EXCEPT !.position_info =
            Some([total_shares |-> Val(@).total_shares + shares,
                  scale_in_count |-> Val(@).scale_in_count + 1])]

\* StateManager.close_position
position_closed(state) == IF ~state.has_position THEN state ELSE NoPosition

\* StateManager.get_position on one SymbolState
position_of(state) == IF state.has_position THEN state.position_info ELSE None

\* position.to_dict() if position else None
get_position_metadata(state) == position_of(state)

\* _load_positions_from_redis: open_position for every stored position with
\* a positive quantity.  loaded: symbol -> quantity stored (0: none)
_load_positions_from_redis(loaded) ==
    [s \in FillSymbols |->
        IF loaded[s] > 0 THEN position_opened(NoPosition, loaded[s]) ELSE NoPosition]

\* trk.positions: PositionTracker._positions as symbol -> shares (0: no
\* entry); trk.sm: the position fields of the StateManager's states.
\* cx: the one event-processing thread inside _evaluate_rules for cx.symbol;
\* pc "call", "meta" (before get_position_metadata), "build" (before the
\* SymbolContext is constructed), "done".
InitFills ==
    /\ \E loaded \in [FillSymbols -> {0, 2}] :
         trk = Some([positions |-> [s \in FillSymbols |-> 0],
                     sm |-> _load_positions_from_redis(loaded),
                     loaded |-> {s \in FillSymbols : loaded[s] > 0},
                     last |-> None, fills |-> 0])
    /\ cx = Some([symbol |-> "AAA", pc |-> "call", metadata |-> None,
                  context |-> None, built |-> 0])
    /\ PipeRest /\ AggRest /\ ConfRest /\ ChkRest /\ GsRest /\ HistRest /\ RdrRest
    /\ TpRest /\ WkRest /\ AgRest /\ StoreRest

FillsUnchanged == UNCHANGED <<tp_in, tp_out, wk, ag, store, pipeVars, aggVars, confVars, chkVars, gsVars, histVars, rdrVars>>

\* PositionTracker._handle_buy with its on_scale_in / on_position_open callback
_handle_buy(symbol, quantity) ==
    /\ trk' = Some([Val(trk) EXCEPT
           !.positions[symbol] = @ + quantity,
           !.sm[symbol] = IF Val(trk).positions[symbol] > 0
                          THEN position_added(@, quantity)
                          ELSE position_opened(@, quantity),
           !.last = Some([side |-> "buy", symbol |-> symbol,
                          left |-> Val(trk).positions[symbol] + quantity]),
           !.fills = @ + 1])

\* PositionTracker._handle_sell with its on_position_close callback
_handle_sell(symbol, quantity) ==
    IF Val(trk).positions[symbol] = 0
    THEN trk' = Some([Val(trk) EXCEPT
           !.last = Some([side |-> "sell", symbol |-> symbol, left |-> 0]),
           !.fills = @ + 1])
    ELSE trk' = Some([Val(trk) EXCEPT
           !.positions[symbol] = IF @ - quantity <= 0 THEN 0 ELSE @ - quantity,
           !.sm[symbol] = IF Val(trk).positions[symbol] - quantity <= 0
                          THEN position_closed(@) ELSE @,
           !.last = Some([side |-> "sell", symbol |-> symbol,
                          left |-> Val(trk).positions[symbol] - quantity]),
           !.fills = @ + 1])

\* one ORDER_FILLED message handled by the fill-consumer thread
OrderFilled ==
    /\ Val(trk).fills < MaxFills
    /\ \E symbol \in FillSymbols, quantity \in FillQuantities :
         _handle_buy(symbol, quantity) \/ _handle_sell(symbol, quantity)
    /\ UNCHANGED cx
    /\ FillsUnchanged

\* state = self.state_manager.get_state(symbol)
CxGetState ==
    /\ Val(cx).pc = "call" /\ Val(cx).built < MaxContexts
    /\ cx' = Some([Val(cx) EXCEPT !.pc = "meta", !.context = None])
    /\ UNCHANGED trk
    /\ FillsUnchanged

\* position_metadata = self.state_manager.get_position_metadata(symbol)
CxGetMetadata ==
    /\ Val(cx).pc = "meta"
    /\ cx' = Some([Val(cx) EXCEPT
                     !.pc = "build",
                     !.metadata = get_position_metadata(Val(trk).sm[Val(cx).symbol])])
    /\ UNCHANGED trk
    /\ FillsUnchanged

\* context = SymbolContext(..., current_position=state.position_side,
\*                         metadata=position_metadata)
CxBuild ==
    /\ Val(cx).pc = "build"
    /\ cx' = Some([Val(cx) EXCEPT
                     !.pc = "call", !.built = @ + 1,
                     !.context = Some([current_position |->
                                           Val(trk).sm[Val(cx).symbol].position_side,
                                       metadata |-> Val(cx).metadata])])
    /\ UNCHANGED trk
    /\ FillsUnchanged

NextFills == OrderFilled \/ CxGetState \/ CxGetMetadata \/ CxBuild

SpecFills == InitFills /\ [][NextFills]_vars

\* C25: the context built for an event has current_position "long" exactly
\* when the position metadata read for it is present.
C25_ContextConsistent ==
    (IsSome(cx) /\ IsSome(Val(cx).context)) =>
        (Val(Val(cx).context).current_position = Some("long")
            <=> IsSome(Val(Val(cx).context).metadata))

\* C26: after an order fill for a symbol, positions loaded at start-up
\* included, the State Manager holds an open position for it exactly when the
\* Position Tracker tracks a holding for it; after a fill that sells all of
\* it, there is none.
C26_TrackerMatchesState ==
    (IsSome(trk) /\ IsSome(Val(trk).last)) =>
        (Val(trk).sm[Val(Val(trk).last).symbol].has_position
            <=> Val(trk).positions[Val(Val(trk).last).symbol] > 0)


----------------------------------------------------------------------------
(* Rankings and blocked BUY signals (Spec) *)

\* C27: a BUY ranking lists no symbol whose current BUY signal was suppressed
\* by a BLOCKED checklist.
C27_NoBlockedBuyRanked ==
    (IsSome(ev) /\ Val(ev).ranked) => Val(ev).ranked_buy \cap blocked_log = {}


----------------------------------------------------------------------------
(* The current signal and the last update (Spec) *)

CurrentSignalOf(sts, symbol) ==
    IF symbol \in DOMAIN sts THEN sts[symbol].current_signal ELSE None

----------------------------------------------------------------------------
(* _aggregate_signals beside the regime refresh thread (SpecRegime) *)

MaxAggregates == 2      \* aggregates built in one behaviour

\* consensus_boost of the BUY signals aggregated
BoostedConfidences == {Rat(6, 10), Rat(9, 10)}

\* ag.regime: MarketContextReader._regime; pc: "call", "regime" (before
\* get_regime), "multiplier" (before get_multiplier); signal: the
\* AggregatedSignal returned last, with the multiplier that was applied
InitRegime ==
    /\ \E regime \in KnownRegimes :
         ag = Some([regime |-> regime, pc |-> "call", boosted |-> RZero,
                    regime_id |-> "UNKNOWN", signal |-> None, made |-> 0])
    /\ PipeRest /\ AggRest /\ ConfRest /\ ChkRest /\ GsRest /\ HistRest /\ RdrRest
    /\ TpRest /\ WkRest /\ CxRest /\ TrkRest /\ StoreRest

AgUnchanged == UNCHANGED <<tp_in, tp_out, wk, cx, trk, store, pipeVars, aggVars, confVars, chkVars, gsVars, histVars, rdrVars>>

\* aggregate_confidence = ConfidenceAggregator.consensus_boost(signals)
AgBoost ==
    /\ Val(ag).pc = "call" /\ Val(ag).made < MaxAggregates
    /\ \E boosted \in BoostedConfidences :
         ag' = Some([Val(ag) EXCEPT !.pc = "regime", !.boosted = boosted,
                                   !.regime_id = "UNKNOWN"])
    /\ AgUnchanged

\* regime_id = self.market_context_reader.get_regime()
AgGetRegime ==
    /\ Val(ag).pc = "regime"
    /\ ag' = Some([Val(ag) EXCEPT !.pc = "multiplier", !.regime_id = Val(ag).regime])
    /\ AgUnchanged

\* multiplier = self.market_context_reader.get_multiplier("BUY") and the rest
\* of _aggregate_signals
AgGetMultiplier ==
    /\ Val(ag).pc = "multiplier"
    /\ \E multiplier \in {get_multiplier("BUY", Val(ag).regime)} :
         ag' = Some([Val(ag) EXCEPT
                 !.pc = "call", !.made = @ + 1,
                 !.signal = Some([signal_type |-> "BUY",
                                  regime_id |-> Val(ag).regime_id,
                                  boosted |-> Val(ag).boosted,
                                  aggregate_confidence |->
                                      IF multiplier # ROne
                                      THEN RMin(RMul(Val(ag).boosted, multiplier), ROne)
                                      ELSE Val(ag).boosted])])
    /\ AgUnchanged

\* MarketContextReader._refresh on the background thread stores a new regime
AgRefresh ==
    /\ \E regime \in KnownRegimes \ {Val(ag).regime} :
         ag' = Some([Val(ag) EXCEPT !.regime = regime])
    /\ AgUnchanged

NextRegime == AgBoost \/ AgGetRegime \/ AgGetMultiplier \/ AgRefresh

SpecRegime == InitRegime /\ [][NextRegime]_vars

\* C29: the confidence of a BUY aggregate is its boosted confidence times
\* the multiplier of the regime recorded in it.
C29_RecordedRegimeApplied ==
    (IsSome(ag) /\ IsSome(Val(ag).signal)) =>
        Val(Val(ag).signal).aggregate_confidence =
            RMin(RMul(Val(Val(ag).signal).boosted,
                      get_multiplier("BUY", Val(Val(ag).signal).regime_id)), ROne)


----------------------------------------------------------------------------
(* The regime reader and a store that comes and goes (SpecReaderLive) *)

MaxStoreChanges == 2    \* changes of the store in one behaviour

\* the regime held under the context key ("": no value)
StoreRegimes == {"", "BULL", "BEAR", "SIDEWAYS"}

\* what a GET of the context key meets, given the store
read_of(st) ==
    IF ~st.reachable THEN ContextRead("error", "", 0)
    ELSE IF st.regime = "" THEN ContextRead("absent", "", 0)
    ELSE ContextRead("data", st.regime, 60)

InitReaderLive ==
    /\ reader = Some(ReaderInit)
    /\ \E reachable \in BOOLEAN, regime \in StoreRegimes :
         store = Some([reachable |-> reachable, regime |-> regime, changes |-> 0])
    /\ PipeRest /\ AggRest /\ ConfRest /\ ChkRest /\ GsRest /\ HistRest
    /\ TpRest /\ WkRest /\ CxRest /\ AgRest /\ TrkRest

LvUnchanged == UNCHANGED <<now, svc, states, last_publish, ev, decision_log, blocked_log, last_ranking_publish, histories, aggVars, confVars, chkVars, gsVars, histVars, tp_in, tp_out, wk, cx, ag, trk>>

\* start(): the ping fails when the store is unreachable, leaving no client
\* and no thread; otherwise one _refresh, and the refresh thread is started
LvStart ==
    /\ ~Val(reader).started
    /\ IF ~Val(store).reachable
       THEN /\ reader' = Some([Val(reader) EXCEPT !.started = TRUE, !.client = FALSE,
                                                   !.last = "start_failed"])
            /\ UNCHANGED reader_regime
       ELSE \E read \in {read_of(Val(store))} :
            \E r \in {_refresh(reader_regime, Val(reader).regime_confidence, TRUE, read)} :
              /\ reader_regime' = r.regime
              /\ reader' = Some([Val(reader) EXCEPT !.started = TRUE, !.client = TRUE,
                                                    !.thread = TRUE,
                                                    !.regime_confidence = r.confidence,
                                                    !.last = read.kind,
                                                    !.before = reader_regime])
    /\ UNCHANGED store
    /\ LvUnchanged

\* _run: the thread, when there is one, calls _refresh at every interval
LvRefresh ==
    /\ Val(reader).thread
    /\ \E read \in {read_of(Val(store))} :
       \E r \in {_refresh(reader_regime, Val(reader).regime_confidence,
                          Val(reader).client, read)} :
         /\ reader_regime' = r.regime
         /\ reader' = Some([Val(reader) EXCEPT !.regime_confidence = r.confidence,
                                               !.last = read.kind,
                                               !.before = reader_regime])
    /\ UNCHANGED store
    /\ LvUnchanged

\* the store goes away, comes back, or the context service publishes
StoreChange ==
    /\ Val(store).changes < MaxStoreChanges
    /\ \E reachable \in BOOLEAN, regime \in StoreRegimes :
         /\ <<reachable, regime>> # <<Val(store).reachable, Val(store).regime>>
         /\ store' = Some([reachable |-> reachable, regime |-> regime,
                           changes |-> Val(store).changes + 1])
    /\ UNCHANGED <<reader, reader_regime>>
    /\ LvUnchanged

NextReaderLive == LvStart \/ LvRefresh \/ StoreChange

\* start() is called, and a running refresh thread keeps refreshing
SpecReaderLive ==
    InitReaderLive /\ [][NextReaderLive]_vars /\ WF_vars(LvStart) /\ WF_vars(LvRefresh)

\* the store is reachable and holds a regime, for good
StoreSettledGood ==
    /\ Val(store).changes = MaxStoreChanges
    /\ Val(store).reachable /\ Val(store).regime # ""

\* C30: once start() has been called and the store is reachable with a
\* valid regime for good, the reader eventually reports that regime.
C30_EventuallyReports ==
    (Val(reader).started /\ StoreSettledGood) ~> (reader_regime = Val(store).regime)

====
